---- MODULE Spec2Model ----
(***************************************************************************)
(* Transport / session orchestration of the wallet frontend:               *)
(*   - WebSocketTransport (lib/transport/WebSocketTransport.ts)            *)
(*   - FlowTransportProvider (context/ClientCoreContextProvider.tsx)       *)
(*   - CapabilitiesService.fetchStatusCached                               *)
(*   - HttpProxyTransport.request, useOID4VCIFlow / useOID4VPFlow          *)
(*   - api/tokenRefresh (refreshAccessToken, withTokenRefresh)             *)
(* The browser WebSocket objects, the timers and the server are the        *)
(* environment; every handler of the source is one action.                 *)
(***************************************************************************)
EXTENDS Integers, Sequences, FiniteSets, TLC

\* ----- bounds of the model ---------------------------------------------
MaxSock == 2        \* WebSocket objects alive at the same time
MaxReq == 2         \* send() calls per behaviour
MaxCallers == 2     \* callers of connect() that await its promise
MaxTimers == 1      \* reconnect timers armed at the same time
MaxErr == 2         \* 'max reconnect attempts' errors counted per subscriber
MaxInst == 2        \* WebSocketTransport instances constructed by the provider
MaxCalls == 3       \* fetchStatusCached invocations per behaviour
MaxEndpoints == 1   \* endpoint base URLs
MaxTicks == 4        \* advances of Date.now(), half a TTL each
MaxHttp == 2         \* HttpProxyTransport.request calls per behaviour
MaxOps == 2         \* operations of the flow hooks per behaviour
MaxHeard == 2       \* error events counted per callback of a hook
MaxRefresh == 3     \* refreshAccessToken calls per behaviour
MaxWrap == 2        \* withTokenRefresh calls per behaviour
MaxWarn == 2        \* console.warn calls of handleMessage per behaviour
MaxTx == 4          \* requestTxCode calls per behaviour

\* ----- program constants ------------------------------------------------
maxReconnectAttempts == 5
reconnectDelay == 1000
CACHE_TTL == 5 * 60 * 1000
CLEAN_CLOSE == 1000
ABNORMAL_CLOSE == 1006

Socks == 1..MaxSock
Reqs == 1..MaxReq
FlowIds == 1..MaxReq
Callers == 1..MaxCallers
Insts == 1..MaxInst
CloseCodes == {CLEAN_CLOSE, ABNORMAL_CLOSE}
Tokens == {1, 2}
Endpoints == 1..MaxEndpoints
CallIds == 1..MaxCalls
NoEntry == [present |-> FALSE, fetchedAt |-> 0, result |-> "none"]
NoCall == [st |-> "unused", url |-> 0, at |-> 0, out |-> "none"]
MsgTypes == {"progress", "error", "flow.result"}

VARIABLES
  \* WebSocketTransport fields, one entry per instance
  tCount,              \* number of instances constructed so far
  ws,                  \* this.ws: socket id, 0 = null
  connectionPromise,   \* this.connectionPromise: id of the socket it was created with, 0 = null
  reconnectAttempts,   \* this.reconnectAttempts
  reconnectTimers,     \* setTimeout(() => this.connect()...) callbacks armed and not yet fired
  pending,             \* this.pending: flowId -> request (0 = no entry)
  errorCallbacks,      \* this.errorCallbacks
  \* browser WebSocket objects
  sock,                \* socket id -> [st, owner]
  \* awaiters of the connection promise created together with socket s
  autoWait,            \* connect().catch(...) continuations of reconnect timers
  provWait,            \* continuations attached by FlowTransportProvider
  connSt, connP,       \* external callers of connect(): state and awaited promise
  \* requests handed to send()
  reqN, reqSt, reqFlow, reqOwner, timerOn, settles, uuidNext,
  \* what subscribers have observed
  errSeen, progressLog,
  \* history of the callers' lifecycle calls
  \* FlowTransportProvider: its prop, its React state, its configuration
  authToken,           \* prop authToken, 0 = null
  pIsConnected,        \* useState isConnected
  wsTransport,         \* useState wsTransport: instance, 0 = null
  lastError,           \* useState lastError is not null
  capabilitiesLoaded, wsCapabilityAvailable,
  capFetch,            \* getEngineCapabilities() of the mount effect: "inflight" / "done"
  effInst,             \* instance captured by the cleanup of the WebSocket effect, 0 = none
  cfg,                 \* values imported from @/config
  tAuth,               \* WebSocketTransport.authToken, per instance
  \* CapabilitiesService
  now,                 \* Date.now()
  statusCache,         \* statusCache: endpoint -> entry
  calls,               \* fetchStatusCached invocations suspended in fetch()
  netCount,            \* fetch() calls issued, per endpoint
  lastNet,             \* Date.now() of the call that issued the latest fetch(), per endpoint
  serverCaps,          \* capabilities the endpoint's /status manifest lists
  \* calls of startOID4VCIFlow / startOID4VPFlow / request on a WebSocketTransport
  reqApi,              \* which method call r is
  reqMsg,              \* the inbound message that settled call r
  lastOut,             \* the message most recently passed to send()
  sentN,               \* number of messages ws.send has put on the wire
  \* HttpProxyTransport
  httpCalls,           \* calls of request(): stage, flow type, proxy status, FlowResponse
  httpSubs,            \* this.errorCallbacks
  httpSeen,            \* errors delivered to the subscribed callback
  \* useOID4VCIFlow / useOID4VPFlow
  hookOptions,         \* which of options.onProgress / options.onError the caller supplied
  ops,                 \* invocations of the hooks' operations
  hook,                \* per hook: isLoading, error, currentStep, calls of options.onError
  progressSubs,        \* hooks whose onProgress is in the transport's progressCallbacks
  errorSubs,           \* hooks whose onError is in the transport's errorCallbacks
  \* what the transport has delivered to subscribed callbacks, and the timer it armed
  progressHeard,       \* progress events each callback has been called with
  errorHeard,          \* error events each callback has been called with
  timerDelay,          \* delay of the reconnect timer handleDisconnect armed last and that has
                       \* not fired yet, per instance; 0 = no timer armed
  warned,              \* console.warn calls of handleMessage (unknown flowId)
  \* TxCodeInputProvider
  txPromise,           \* the promises requestTxCode has returned, in call order
  pendingRef,          \* pendingRef.current: the call whose handlers it holds, 0 = null
  txState,             \* state: isOpen
  \* api/tokenRefresh: module state, calls and their effects on the session
  isRefreshing,        \* let isRefreshing
  refreshPromise,      \* let refreshPromise: the call that created it, 0 = null
  posts,               \* axios.post(/user/token/refresh) of performRefresh, per creating call
  rCalls,              \* refreshAccessToken invocations
  session,             \* calls of setAppToken / setRefreshToken / clearSession
  wCalls,              \* withTokenRefresh invocations
  lastApi,             \* last of connect() / disconnect() a caller made
  callerSinceOpen      \* a caller made one since the current channel last opened with no other
                       \* socket and no reconnect timer outstanding

connVars == <<ws, connectionPromise, sock>>
waitVars == <<autoWait, provWait, connSt, connP>>
reVars == <<reconnectAttempts, reconnectTimers>>
reqVars == <<reqN, reqSt, reqFlow, reqOwner, timerOn, settles, uuidNext, pending>>
evVars == <<errorCallbacks, errSeen, progressLog>>
histVars == <<lastApi, callerSinceOpen>>
provRest == <<authToken, wsTransport, capabilitiesLoaded, wsCapabilityAvailable, capFetch,
              effInst, cfg, tAuth>>
provVars == <<pIsConnected, lastError, provRest>>
cacheVars == <<now, statusCache, calls, netCount, lastNet, serverCaps>>
flowVars == <<reqApi, reqMsg, lastOut, sentN>>
httpVars == <<httpCalls, httpSubs, httpSeen>>
hookVars == <<hookOptions, ops, hook, progressSubs, errorSubs>>
facadeVars == <<httpVars, hookVars>>
obsVars == <<progressHeard, errorHeard, timerDelay, warned>>
refreshVars == <<isRefreshing, refreshPromise, posts, rCalls, session, wCalls>>
txVars == <<txPromise, pendingRef, txState>>
vars == <<tCount, connVars, waitVars, reVars, reqVars, evVars, histVars, provVars, cacheVars,
          flowVars, facadeVars, obsVars, refreshVars, txVars>>

FreeSock == [st |-> "FREE", owner |-> 0, token |-> 0]
\* new WebSocket(url) with url = `${wsUrl}?token=${encodeURIComponent(token)}`: the
\* encoding is one-to-one, so the socket is recorded with the token its URL carries
NewSock(t, token) == [st |-> "CONNECTING", owner |-> t, token |-> token]
NoPending == [f \in FlowIds |-> 0]
NoMessage == [flowId |-> 0, type |-> "none", flow |-> "none", action |-> "none"]
NoError == [code |-> "absent", message |-> "absent"]
NoReply == [type |-> "none", error |-> NoError]

\* ----- WebSocketTransport ------------------------------------------------

\* isConnected(): this.ws?.readyState === WebSocket.OPEN
isConnected(t) == ws[t] # 0 /\ sock[ws[t]].st = "OPEN"

FreeSlots == {s \in Socks : sock[s].st = "FREE"}
NextSlot == CHOOSE s \in FreeSlots : \A x \in FreeSlots : s <= x

\* connect() without the connectionPromise check: every call made while connecting opens a socket
ConnectCase_NoDedup(t) == IF isConnected(t) THEN "open" ELSE "new"

\* a connect() that takes a held socket for an open one without looking at readyState
ConnectCase_HeldSocket(t) ==
  IF connectionPromise[t] # 0 THEN "join"
  ELSE IF ws[t] # 0 THEN "open"
  ELSE "new"

\* connect(): which of its three branches is taken
ConnectCase(t) ==
  IF connectionPromise[t] # 0 THEN "join"
  ELSE IF isConnected(t) THEN "open"
  ELSE "new"

\* the promise connect() returns (0: an already resolved one)
ConnectTarget(t) ==
  CASE ConnectCase(t) = "join" -> connectionPromise[t]
    [] ConnectCase(t) = "open" -> 0
    [] OTHER -> NextSlot

ConnectGuard(t) == ConnectCase(t) = "new" => FreeSlots # {}

\* a connect() that builds its URL from the token the constructor was given
UrlToken_Constructor(t) == 1

\* the token connect() puts in the URL: this.authToken when the socket is constructed
UrlToken(t) == tAuth[t]

\* connect(): effect on the transport and on the browser
ConnectCore(t) ==
  IF ConnectCase(t) = "new"
  THEN /\ sock' = [sock EXCEPT ![NextSlot] = NewSock(t, UrlToken(t))]
       /\ ws' = [ws EXCEPT ![t] = NextSlot]
       /\ connectionPromise' = [connectionPromise EXCEPT ![t] = NextSlot]
  ELSE UNCHANGED connVars

\* ws.close(code, reason) called by the client
ClientClose(s) ==
  CASE sock[s].st = "CONNECTING" -> [sock EXCEPT ![s].st = "ABORTING"]
    [] sock[s].st = "OPEN" -> [sock EXCEPT ![s].st = "CLOSING"]
    [] OTHER -> sock

\* pending.reject(new Error('WebSocket disconnected')) for every entry, then pending.clear()
PendingReqs(t) == {pending[t][f] : f \in FlowIds} \ {0}

\* a teardown that clears the table without rejecting
RejectedAll_Silent(t) == reqSt

RejectedAll(t) == [r \in Reqs |->
  IF r \in PendingReqs(t) /\ reqSt[r] = "pending" THEN "rej_disconnected" ELSE reqSt[r]]

SettledAll(t) == [r \in Reqs |-> IF r \in PendingReqs(t) THEN settles[r] + 1 ELSE settles[r]]

TimersCleared(t) == [r \in Reqs |-> IF r \in PendingReqs(t) THEN FALSE ELSE timerOn[r]]

RejectAllPending(t) ==
  /\ reqSt' = RejectedAll(t)
  /\ settles' = SettledAll(t)
  /\ timerOn' = TimersCleared(t)
  /\ pending' = [pending EXCEPT ![t] = NoPending]
  /\ UNCHANGED <<reqN, reqFlow, reqOwner, uuidNext>>

\* an emit loop that lets the first exception of a callback escape: the callbacks after
\* the throwing one are not called (callbacks are visited in the order vci, vp)
Invoked_StopsAtThrow(callbacks, throwing) ==
  IF "vci" \in callbacks \cap throwing THEN callbacks \ {"vp"} ELSE callbacks

\* emitProgress / emitError: Array.from(callbacks).forEach with a try/catch around each
\* call, so every callback of the snapshot is called whichever of them throw
Invoked(callbacks, throwing) == callbacks

\* the per-callback delivery counts after one emit called the callbacks in called n times
Heard(counts, called, n) == [cb \in DOMAIN counts |->
                              IF cb \in called THEN counts[cb] + n ELSE counts[cb]]

\* emitError(error) n times: what the subscribed callbacks record
EmitError(t, kind, n) ==
  /\ IF n > 0 /\ "user" \in errorCallbacks[t]
     THEN errSeen' = [errSeen EXCEPT ![kind] = IF kind = "max" THEN @ + n ELSE 1]
     ELSE UNCHANGED errSeen
  /\ n > 0 => \A cb \in errorSubs : errorHeard[cb] + n <= MaxHeard
  /\ \E throwing \in SUBSET errorSubs :
        errorHeard' = Heard(errorHeard, Invoked(errorSubs, throwing), n)

\* the provider's onError callback is subscribed and n errors are emitted
ProvHears(t, n) == n > 0 /\ "prov" \in errorCallbacks[t]

\* a caller invokes connect() and awaits the result
Connect(t, c) ==
  /\ t \in 1..tCount
  /\ connSt[c] # "wait"
  /\ ConnectGuard(t)
  /\ ConnectCore(t)
  /\ connSt' = [connSt EXCEPT ![c] = IF ConnectCase(t) = "open" THEN "ok" ELSE "wait"]
  /\ connP' = [connP EXCEPT ![c] = ConnectTarget(t)]
  /\ lastApi' = "connect"
  /\ callerSinceOpen' = [callerSinceOpen EXCEPT ![t] = TRUE]
  /\ UNCHANGED <<tCount, autoWait, provWait, reVars, reqVars, evVars>>
  /\ UNCHANGED <<provVars, cacheVars>>
  /\ UNCHANGED <<flowVars, facadeVars>>
  /\ UNCHANGED <<obsVars, refreshVars, txVars>>

\* disconnect()
Disconnect(t) ==
  /\ t \in 1..tCount
  /\ IF ws[t] # 0
     THEN /\ RejectAllPending(t)
          /\ sock' = ClientClose(ws[t])
          /\ ws' = [ws EXCEPT ![t] = 0]
     ELSE UNCHANGED <<reqVars, sock, ws>>
  /\ connectionPromise' = [connectionPromise EXCEPT ![t] = 0]
  /\ lastApi' = "disconnect"
  /\ callerSinceOpen' = [callerSinceOpen EXCEPT ![t] = TRUE]
  /\ UNCHANGED <<tCount, waitVars, reVars, evVars>>
  /\ UNCHANGED <<provVars, cacheVars>>
  /\ UNCHANGED <<flowVars, facadeVars>>
  /\ UNCHANGED <<obsVars, refreshVars, txVars>>

\* ws.onopen
SockOpen(s) ==
  LET t == sock[s].owner IN
  /\ sock[s].st = "CONNECTING"
  /\ sock' = [sock EXCEPT ![s].st = "OPEN"]
  /\ reconnectAttempts' = [reconnectAttempts EXCEPT ![t] = 0]
  /\ connectionPromise' = [connectionPromise EXCEPT ![t] = 0]
  /\ connSt' = [c \in Callers |-> IF connSt[c] = "wait" /\ connP[c] = s THEN "ok" ELSE connSt[c]]
  /\ autoWait' = [autoWait EXCEPT ![s] = 0]
  /\ provWait' = [provWait EXCEPT ![s] = {}]
  /\ connP' = [c \in Callers |-> IF connP[c] = s THEN 0 ELSE connP[c]]
  /\ callerSinceOpen' = [callerSinceOpen EXCEPT ![t] =
        IF ws[t] = s /\ reconnectTimers[t] = 0 /\ (\A x \in Socks \ {s} : sock[x].owner # t)
        THEN FALSE ELSE @]
  /\ UNCHANGED <<tCount, ws, reconnectTimers, reqVars, evVars, lastApi>>
  \* .then(() => { setIsConnected(true); setLastError(null) }) of the provider
  /\ pIsConnected' = IF provWait[s] # {} THEN TRUE ELSE pIsConnected
  /\ lastError' = IF provWait[s] # {} THEN FALSE ELSE lastError
  /\ UNCHANGED <<provRest, cacheVars>>
  /\ UNCHANGED <<flowVars, facadeVars>>
  /\ UNCHANGED <<obsVars, refreshVars, txVars>>

\* ws.onerror
SockError(s) ==
  LET t == sock[s].owner IN
  /\ sock[s].st \in {"CONNECTING", "ABORTING", "OPEN"}
  /\ sock' = [sock EXCEPT ![s].st = "FAILED"]
  /\ connectionPromise' = [connectionPromise EXCEPT ![t] = 0]
  /\ connSt' = [c \in Callers |-> IF connSt[c] = "wait" /\ connP[c] = s THEN "fail" ELSE connSt[c]]
  /\ autoWait' = [autoWait EXCEPT ![s] = 0]
  /\ provWait' = [provWait EXCEPT ![s] = {}]
  /\ EmitError(t, "failed", autoWait[s])
  /\ connP' = [c \in Callers |-> IF connP[c] = s THEN 0 ELSE connP[c]]
  /\ UNCHANGED <<tCount, ws, reVars, reqVars, errorCallbacks, progressLog, histVars>>
  \* .catch of the provider's effect and of reconnect(); its onError callback
  /\ pIsConnected' = IF "eff" \in provWait[s] \/ ProvHears(t, autoWait[s])
                      THEN FALSE ELSE pIsConnected
  /\ lastError' = IF provWait[s] # {} \/ ProvHears(t, autoWait[s]) THEN TRUE ELSE lastError
  /\ UNCHANGED <<provRest, cacheVars>>
  /\ UNCHANGED <<flowVars, facadeVars>>
  /\ UNCHANGED <<refreshVars, txVars, progressHeard, timerDelay, warned>>

\* a backoff that doubles before the first attempt
Backoff_DoublesFirst(attempts) == reconnectDelay * 2 ^ (attempts + 1)

\* handleDisconnect: delay = this.reconnectDelay * Math.pow(2, this.reconnectAttempts),
\* computed before reconnectAttempts is incremented
Backoff(attempts) == reconnectDelay * 2 ^ attempts

\* a budget check that allows one attempt more
CanRetry_OffByOne(t) == reconnectAttempts[t] <= maxReconnectAttempts

\* handleDisconnect: the attempt budget is not used up
CanRetry(t) == reconnectAttempts[t] < maxReconnectAttempts

\* ws.onclose -> handleDisconnect(event)
SockClose(s, code) ==
  LET t == sock[s].owner
      arm == code # CLEAN_CLOSE /\ CanRetry(t)
      exhausted == code # CLEAN_CLOSE /\ ~CanRetry(t)
  IN
  /\ sock[s].st \in {"OPEN", "CLOSING", "ABORTING", "FAILED"}
  /\ sock[s].st = "FAILED" => code = ABNORMAL_CLOSE    \* a failed connection closes uncleanly
  /\ sock[s].st = "ABORTING" => code = CLEAN_CLOSE     \* close(1000) echoed without an error event
  /\ arm => reconnectTimers[t] < MaxTimers
  /\ exhausted /\ "user" \in errorCallbacks[t] => errSeen["max"] < MaxErr
  /\ sock' = [sock EXCEPT ![s] = FreeSock]
  /\ RejectAllPending(t)
  /\ ws' = [ws EXCEPT ![t] = 0]
  /\ connectionPromise' = [connectionPromise EXCEPT ![t] = 0]
  /\ reconnectAttempts' = [reconnectAttempts EXCEPT ![t] = IF arm THEN @ + 1 ELSE @]
  /\ reconnectTimers' = [reconnectTimers EXCEPT ![t] = IF arm THEN @ + 1 ELSE @]
  /\ timerDelay' = [timerDelay EXCEPT ![t] = IF arm THEN Backoff(reconnectAttempts[t]) ELSE @]
  /\ EmitError(t, "max", IF exhausted THEN 1 ELSE 0)
  \* a promise whose socket closes without open or error is never settled
  /\ connSt' = [c \in Callers |-> IF connSt[c] = "wait" /\ connP[c] = s THEN "never" ELSE connSt[c]]
  /\ autoWait' = [autoWait EXCEPT ![s] = 0]
  /\ provWait' = [provWait EXCEPT ![s] = {}]
  /\ connP' = [c \in Callers |-> IF connP[c] = s THEN 0 ELSE connP[c]]
  /\ UNCHANGED <<tCount, errorCallbacks, progressLog, histVars>>
  \* the provider's onError callback
  /\ pIsConnected' = IF ProvHears(t, IF exhausted THEN 1 ELSE 0) THEN FALSE ELSE pIsConnected
  /\ lastError' = IF ProvHears(t, IF exhausted THEN 1 ELSE 0) THEN TRUE ELSE lastError
  /\ UNCHANGED <<provRest, cacheVars>>
  /\ UNCHANGED <<flowVars, facadeVars>>
  /\ UNCHANGED <<refreshVars, txVars, progressHeard, warned>>

\* the reconnect timer armed by handleDisconnect fires: this.connect().catch(...)
ReconnectTimer(t) ==
  /\ t \in 1..tCount
  /\ reconnectTimers[t] > 0
  /\ ConnectGuard(t)
  /\ reconnectTimers' = [reconnectTimers EXCEPT ![t] = @ - 1]
  /\ ConnectCore(t)
  /\ autoWait' = IF ConnectCase(t) = "open" THEN autoWait
                 ELSE [autoWait EXCEPT ![ConnectTarget(t)] = @ + 1]
  /\ UNCHANGED <<tCount, provWait, connSt, connP, reconnectAttempts, reqVars, evVars, histVars>>
  /\ UNCHANGED <<provVars, cacheVars>>
  /\ UNCHANGED <<flowVars, facadeVars>>
  \* the timer object is gone once its callback has run
  /\ timerDelay' = [timerDelay EXCEPT ![t] = IF reconnectTimers[t] = 1 THEN 0 ELSE @]
  /\ UNCHANGED <<progressHeard, errorHeard, refreshVars, txVars, warned>>

\* an identifier source that repeats itself
randomUUID_Reused == IF uuidNext = 0 THEN 1 ELSE uuidNext

\* crypto.randomUUID(): a value never returned before
randomUUID == uuidNext + 1

\* a promise whose resolve and reject are never called
Settle_Dropped(st, r, outcome) == st

\* first settlement of the promise wins; later resolve/reject calls are counted only
Settle(st, r, outcome) == [st EXCEPT ![r] = IF @ = "pending" THEN outcome ELSE @]

\* send(message): the executor of the returned promise
Send(t, throws) ==
  LET r == reqN + 1
      flowId == randomUUID
  IN
  /\ t \in 1..tCount
  /\ reqN < MaxReq
  /\ reqN' = r
  /\ reqOwner' = [reqOwner EXCEPT ![r] = t]
  /\ IF ~isConnected(t)
     THEN /\ reqSt' = [reqSt EXCEPT ![r] = "rej_notconnected"]
          /\ settles' = [settles EXCEPT ![r] = 1]
          /\ UNCHANGED <<reqFlow, timerOn, uuidNext, pending>>
     ELSE /\ uuidNext' = flowId
          /\ reqFlow' = [reqFlow EXCEPT ![r] = flowId]
          /\ IF throws
             THEN \* ws.send / JSON.stringify threw: clearTimeout, delete, reject
                  /\ reqSt' = [reqSt EXCEPT ![r] = "rej_send"]
                  /\ settles' = [settles EXCEPT ![r] = 1]
                  /\ pending' = [pending EXCEPT ![t][flowId] = 0]
                  /\ UNCHANGED timerOn
             ELSE /\ reqSt' = [reqSt EXCEPT ![r] = "pending"]
                  /\ pending' = [pending EXCEPT ![t][flowId] = r]
                  /\ timerOn' = [timerOn EXCEPT ![r] = TRUE]
                  /\ UNCHANGED settles
  /\ UNCHANGED <<tCount, connVars, waitVars, reVars, evVars, histVars>>
  /\ UNCHANGED <<provVars, cacheVars>>
  /\ UNCHANGED <<obsVars, refreshVars, txVars>>

\* a timeout that clears the whole table
TimeoutRemoves_Sweep(table, flowId) == NoPending

\* the timeout callback's this.pending.delete(flowId)
TimeoutRemoves(table, flowId) == [table EXCEPT ![flowId] = 0]

\* the setTimeout callback of request r fires
RequestTimeout(r) ==
  LET t == reqOwner[r]
      flowId == reqFlow[r]
  IN
  /\ timerOn[r]
  /\ timerOn' = [timerOn EXCEPT ![r] = FALSE]
  /\ IF pending[t][flowId] # 0
     THEN /\ pending' = [pending EXCEPT ![t] = TimeoutRemoves(pending[t], flowId)]
          /\ reqSt' = Settle(reqSt, r, "rej_timeout")
          /\ settles' = [settles EXCEPT ![r] = @ + 1]
     ELSE UNCHANGED <<pending, reqSt, settles>>
  /\ UNCHANGED <<tCount, connVars, waitVars, reVars, evVars, reqN, reqFlow, reqOwner, uuidNext, histVars>>
  /\ UNCHANGED <<provVars, cacheVars>>
  /\ UNCHANGED <<flowVars, facadeVars>>
  /\ UNCHANGED <<obsVars, refreshVars, txVars>>

\* a handleMessage that resolves the pending promise with every message
Delivered_ResolvesAll(type) == "fulfilled"

\* handleMessage: 'error' rejects the pending promise, any other type resolves it
Delivered(type) == IF type = "error" THEN "rej_error" ELSE "fulfilled"

\* how the request that was sent under flowId stands: never sent, pending, or settled
Stage(flowId) ==
  IF \A r \in Reqs : reqFlow[r] # flowId THEN "unknown"
  ELSE IF \E r \in Reqs : reqFlow[r] = flowId /\ reqSt[r] = "pending" THEN "pending"
  ELSE "settled"

\* a handleMessage without the early return of its progress branch
IsProgress_Never(type) == FALSE

\* handleMessage: if (message.type === 'progress') { emitProgress(...); return; }
IsProgress(type) == type = "progress"

\* a lookup that falls back to some pending entry when flowId has none
Lookup_AnyPending(table, flowId) ==
  IF table[flowId] # 0 THEN table[flowId]
  ELSE IF \E f \in FlowIds : table[f] # 0
       THEN table[CHOOSE f \in FlowIds : table[f] # 0]
       ELSE 0

\* this.pending.get(flowId): the request stored under flowId, 0 for undefined
Lookup(table, flowId) == table[flowId]

\* ws.onmessage -> handleMessage(message)
handleMessage(s, flowId, type) ==
  LET t == sock[s].owner
      r == Lookup(pending[t], flowId)
  IN
  /\ sock[s].st = "OPEN"
  /\ IF IsProgress(type)
     THEN /\ flowId \notin progressLog
          /\ progressLog' = progressLog \cup {flowId}
          /\ \E throwing \in SUBSET progressSubs :
                progressHeard' = Heard(progressHeard, Invoked(progressSubs, throwing), 1)
          /\ UNCHANGED <<reqVars, warned>>
     ELSE IF r # 0
     THEN /\ timerOn' = [timerOn EXCEPT ![r] = FALSE]
          /\ pending' = [pending EXCEPT ![t][flowId] = 0]
          /\ reqSt' = Settle(reqSt, r, Delivered(type))
          /\ settles' = [settles EXCEPT ![r] = @ + 1]
          /\ UNCHANGED <<reqN, reqFlow, reqOwner, uuidNext, progressLog, progressHeard, warned>>
     ELSE \* console.warn('Received message for unknown flowId:', flowId)
          /\ warned < MaxWarn
          /\ warned' = warned + 1
          /\ UNCHANGED <<reqVars, progressLog, progressHeard>>
  /\ UNCHANGED <<tCount, connVars, waitVars, reVars, errorCallbacks, errSeen, histVars>>
  /\ UNCHANGED <<provVars, cacheVars>>
  /\ UNCHANGED <<refreshVars, txVars, errorHeard, timerDelay>>

\* a message the server sends about a flow the transport is waiting on, or a progress
\* event
Message(s, flowId, type) ==
  /\ sock[s].st = "OPEN"
  /\ type = "progress" \/ pending[sock[s].owner][flowId] # 0
  /\ handleMessage(s, flowId, type)

(***************************************************************************)
(* startOID4VCIFlow, startOID4VPFlow and request of WebSocketTransport     *)
(***************************************************************************)

\* OID4VCIFlowParams / OID4VPFlowParams: which fields are populated (truthy)
VCIParams == [credentialOfferUri : BOOLEAN, credentialOffer : BOOLEAN,
              holderBinding : BOOLEAN, credentialConfigurationId : BOOLEAN,
              authorizationCode : BOOLEAN, preAuthorizedCode : BOOLEAN]
VPParams == [authorizationRequestUri : BOOLEAN, selectedCredentials : BOOLEAN]

\* the error field of a server message: which of code / message it carries
ErrorPayloads == [code : {"absent", "c"}, message : {"absent", "m"}]

\* a startOID4VCIFlow without the final throw
VCIRule_Lenient(p) ==
  IF p.credentialOfferUri \/ p.credentialOffer THEN "start"
  ELSE IF p.holderBinding /\ p.credentialConfigurationId THEN "consent"
  ELSE IF p.authorizationCode THEN "token_exchange"
  ELSE "pre_authorized"

\* a startOID4VCIFlow that tests the codes before the offer
VCIRule_CodesFirst(p) ==
  IF p.authorizationCode THEN "token_exchange"
  ELSE IF p.preAuthorizedCode THEN "pre_authorized"
  ELSE IF p.credentialOfferUri \/ p.credentialOffer THEN "start"
  ELSE IF p.holderBinding /\ p.credentialConfigurationId THEN "consent"
  ELSE "invalid"

\* the if-chain of startOID4VCIFlow: the branch taken for params p
VCIRule(p) ==
  IF p.credentialOfferUri \/ p.credentialOffer THEN "start"
  ELSE IF p.holderBinding /\ p.credentialConfigurationId THEN "consent"
  ELSE IF p.authorizationCode THEN "token_exchange"
  ELSE IF p.preAuthorizedCode THEN "pre_authorized"
  ELSE "invalid"

\* a startOID4VPFlow that starts whenever the request uri is present
VPRule_StartFirst(p) ==
  IF p.authorizationRequestUri THEN "start"
  ELSE IF p.selectedCredentials THEN "submit"
  ELSE "invalid"

\* the if-chain of startOID4VPFlow
VPRule(p) ==
  IF p.authorizationRequestUri /\ ~p.selectedCredentials THEN "start"
  ELSE IF p.selectedCredentials THEN "submit"
  ELSE "invalid"

\* the object literal handed to send(), with the flowId send() adds
Outbound(flow, rule, flowId) ==
  [flowId |-> flowId,
   type |-> IF rule = "start" THEN "flow.start" ELSE "flow.continue",
   flow |-> flow,
   action |-> IF rule = "start" THEN "none" ELSE rule]

\* the generic.request message of request()
GenericRequest(flowId) ==
  [flowId |-> flowId, type |-> "generic.request", flow |-> "none", action |-> "none"]

\* a send() that hands the message to the socket without the isConnected() test
Wire_Unchecked(t, throws, msg) ==
  /\ lastOut' = msg
  /\ sentN' = IF ~throws THEN sentN + 1 ELSE sentN

\* send(message): the message gets its flowId and reaches ws.send only on an open
\* socket, and is on the wire unless that statement throws
Wire(t, throws, msg) ==
  /\ lastOut' = IF isConnected(t) THEN msg ELSE [msg EXCEPT !.flowId = 0]
  /\ sentN' = IF isConnected(t) /\ ~throws THEN sentN + 1 ELSE sentN

\* the throw at the end of startOID4VCIFlow / startOID4VPFlow: the call rejects
\* before send() is entered
ThrowInvalid(t, api) ==
  LET r == reqN + 1 IN
  /\ t \in 1..tCount
  /\ reqN < MaxReq
  /\ reqN' = r
  /\ reqOwner' = [reqOwner EXCEPT ![r] = t]
  /\ reqSt' = [reqSt EXCEPT ![r] = "rej_invalid"]
  /\ settles' = [settles EXCEPT ![r] = 1]
  /\ reqApi' = [reqApi EXCEPT ![r] = api]
  /\ UNCHANGED <<reqFlow, timerOn, uuidNext, pending, reqMsg, lastOut, sentN>>
  /\ UNCHANGED <<tCount, connVars, waitVars, reVars, evVars, histVars>>
  /\ UNCHANGED <<provVars, cacheVars>>
  /\ UNCHANGED <<obsVars, refreshVars, txVars>>

\* one of the three methods passing its message to send()
Call(t, throws, api, flow, rule) ==
  /\ Send(t, throws)
  /\ reqApi' = [reqApi EXCEPT ![reqN + 1] = api]
  /\ Wire(t, throws, IF api = "request" THEN GenericRequest(randomUUID)
                     ELSE Outbound(flow, rule, randomUUID))
  /\ UNCHANGED reqMsg

\* transport.startOID4VCIFlow(params)
StartOID4VCIFlow(t, p, throws) ==
  IF VCIRule(p) = "invalid"
  THEN ~throws /\ ThrowInvalid(t, "vci")
  ELSE Call(t, throws, "vci", "oid4vci", VCIRule(p))

\* transport.startOID4VPFlow(params)
StartOID4VPFlow(t, p, throws) ==
  IF VPRule(p) = "invalid"
  THEN ~throws /\ ThrowInvalid(t, "vp")
  ELSE Call(t, throws, "vp", "oid4vp", VPRule(p))

\* transport.request(flowRequest): the send inside its try block
Request(t, throws) == Call(t, throws, "request", "none", "none")

\* handleMessage for a server message with its error field
ServerMessage(s, flowId, type, err) ==
  LET r == pending[sock[s].owner][flowId] IN
  /\ type = "error" \/ err = NoError
  /\ Message(s, flowId, type)
  /\ IF type = "progress"
     THEN UNCHANGED reqMsg
     ELSE reqMsg' = [reqMsg EXCEPT ![r] = [type |-> type, error |-> err]]
  /\ UNCHANGED <<reqApi, lastOut, sentN>>

\* message.error?.message ?? 'Unknown error', message.error?.code ?? 'UNKNOWN_ERROR'
ErrorText(err) == IF err.message = "absent" THEN "Unknown error" ELSE err.message
ErrorCode(err) == IF err.code = "absent" THEN "UNKNOWN_ERROR" ELSE err.code

\* the message of the Error a promise settled as st was rejected with
RejectText(st, msg) ==
  CASE st = "rej_error" -> ErrorText(msg.error)
    [] st = "rej_timeout" -> "Request timeout"
    [] st = "rej_disconnected" -> "WebSocket disconnected"
    [] st = "rej_notconnected" -> "WebSocket not connected"
    [] st = "rej_send" -> "send failed"
    [] st = "rej_invalid" -> "Invalid flow params"
    [] OTHER -> "none"

Rejected(st) == st \notin {"unused", "pending", "fulfilled"}

\* mapOID4VCIResponse / mapOID4VPResponse applied to the resolved message
mapResponse(response) ==
  IF response.type = "error"
  THEN [success |-> FALSE, code |-> ErrorCode(response.error),
        message |-> ErrorText(response.error)]
  ELSE [success |-> TRUE, code |-> "absent", message |-> "absent"]

\* what the promise returned by a call of method api has settled to, given the state
\* st of the promise of send() and the message msg that settled it
Outcome(api, st, msg) ==
  IF st \in {"unused", "pending"} THEN [state |-> "pending"]
  ELSE IF api = "request"
  THEN \* request(): try { await send; map } catch { WEBSOCKET_ERROR }
       IF Rejected(st)
       THEN [state |-> "fulfilled",
             value |-> [success |-> FALSE, code |-> "WEBSOCKET_ERROR",
                        message |-> RejectText(st, msg)]]
       ELSE [state |-> "fulfilled", value |-> mapResponse(msg)]
  ELSE \* the flow methods have no catch
       IF Rejected(st)
       THEN [state |-> "rejected", message |-> RejectText(st, msg)]
       ELSE [state |-> "fulfilled", value |-> mapResponse(msg)]

CallResult(r) == Outcome(reqApi[r], reqSt[r], reqMsg[r])

(***************************************************************************)
(* HttpProxyTransport.request                                              *)
(***************************************************************************)

HttpCallIds == 1..MaxHttp

\* FlowRequest.type
FlowTypes == {"oid4vci", "oid4vp", "vctm", "general"}

\* statuses the proxy may report, around the boundaries request() tests
Statuses == {100, 200, 204, 299, 300, 304, 399, 400, 404, 500}

NoResponse == [success |-> FALSE, data |-> FALSE, error |-> "none"]
NoHttpCall == [st |-> "unused", type |-> "none", status |-> 0, resp |-> NoResponse]

InitHttp ==
  /\ httpCalls = [c \in HttpCallIds |-> NoHttpCall]
  /\ httpSubs = {}
  /\ httpSeen = 0

\* the object request() returns for a response of the proxy
HttpResponse(status) ==
  [success |-> status >= 200 /\ status < 300,
   data |-> TRUE,
   error |-> IF status >= 400 THEN <<"HTTP", status>> ELSE "absent"]

\* the object request() returns without calling the proxy, and from its catch block
Unsupported == [success |-> FALSE, data |-> FALSE, error |-> "UNSUPPORTED_FLOW_TYPE"]
HttpFailed == [success |-> FALSE, data |-> FALSE, error |-> "HTTP_ERROR"]

FirstHttp == CHOOSE c \in HttpCallIds :
               httpCalls[c].st = "unused" /\ \A d \in HttpCallIds : d < c => httpCalls[d].st # "unused"

\* request(flowRequest) up to the await of httpProxy.get / post
HttpRequest(type) ==
  /\ \E c \in HttpCallIds : httpCalls[c].st = "unused"
  /\ httpCalls' = [httpCalls EXCEPT ![FirstHttp] =
                     IF type # "general"
                     THEN [st |-> "done", type |-> type, status |-> 0, resp |-> Unsupported]
                     ELSE [st |-> "waiting", type |-> type, status |-> 0, resp |-> NoResponse]]
  /\ UNCHANGED <<httpSubs, httpSeen>>
  /\ UNCHANGED <<tCount, connVars, waitVars, reVars, reqVars, evVars, histVars>>
  /\ UNCHANGED <<provVars, cacheVars, flowVars, hookVars>>
  /\ UNCHANGED <<obsVars, refreshVars, txVars>>

\* the proxy call of request c returns a response with the given status
HttpReturns(c, status) ==
  /\ httpCalls[c].st = "waiting"
  /\ httpCalls' = [httpCalls EXCEPT ![c] = [@ EXCEPT !.st = "done", !.status = status,
                                                     !.resp = HttpResponse(status)]]
  /\ UNCHANGED <<httpSubs, httpSeen>>
  /\ UNCHANGED <<tCount, connVars, waitVars, reVars, reqVars, evVars, histVars>>
  /\ UNCHANGED <<provVars, cacheVars, flowVars, hookVars>>
  /\ UNCHANGED <<obsVars, refreshVars, txVars>>

\* the proxy call (or reading the payload) throws: emitError, then the failure object
HttpThrows(c) ==
  /\ httpCalls[c].st = "waiting"
  /\ httpCalls' = [httpCalls EXCEPT ![c] = [@ EXCEPT !.st = "done", !.resp = HttpFailed]]
  /\ httpSeen' = IF "user" \in httpSubs /\ httpSeen < MaxErr THEN httpSeen + 1 ELSE httpSeen
  /\ UNCHANGED httpSubs
  /\ UNCHANGED <<tCount, connVars, waitVars, reVars, reqVars, evVars, histVars>>
  /\ UNCHANGED <<provVars, cacheVars, flowVars, hookVars>>
  /\ UNCHANGED <<obsVars, refreshVars, txVars>>

\* onError(callback) of the HTTP transport and the unsubscribe function it returns
HttpOnError ==
  /\ httpSubs' = IF "user" \in httpSubs THEN httpSubs \ {"user"} ELSE httpSubs \cup {"user"}
  /\ UNCHANGED <<httpCalls, httpSeen>>
  /\ UNCHANGED <<tCount, connVars, waitVars, reVars, reqVars, evVars, histVars>>
  /\ UNCHANGED <<provVars, cacheVars, flowVars, hookVars>>
  /\ UNCHANGED <<obsVars, refreshVars, txVars>>


(***************************************************************************)
(* useOID4VCIFlow and useOID4VPFlow                                        *)
(***************************************************************************)

Ops == 1..MaxOps
Hooks == {"vci", "vp"}

\* the operations the two hooks return
Kinds == {"handleCredentialOffer", "handleAuthorizationResponse",
          "requestWithPreAuthorization", "handleAuthorizationRequest",
          "sendAuthorizationResponse"}

HookOf(kind) ==
  IF kind \in {"handleAuthorizationRequest", "sendAuthorizationResponse"} THEN "vp" ELSE "vci"

\* UseOID4VCIFlowOptions / UseOID4VPFlowOptions: which callbacks were supplied
Options == [onProgress : BOOLEAN, onError : BOOLEAN]
NoOptions == [onProgress |-> FALSE, onError |-> FALSE]

\* only the first operation of each hook passes onError to transport.onError
SubscribesError(kind) == kind \in {"handleCredentialOffer", "handleAuthorizationRequest"}

\* the code each operation's catch block puts into the failure it returns
CatchCode(kind) ==
  CASE kind = "handleCredentialOffer" -> "FLOW_ERROR"
    [] kind = "handleAuthorizationResponse" -> "AUTH_RESPONSE_ERROR"
    [] kind = "requestWithPreAuthorization" -> "PREAUTH_ERROR"
    [] kind = "handleAuthorizationRequest" -> "FLOW_ERROR"
    [] kind = "sendAuthorizationResponse" -> "RESPONSE_ERROR"

\* setCurrentStep at the start of the operation (useOID4VCIFlow keeps no step)
FirstStep(kind, step) ==
  CASE kind = "handleAuthorizationRequest" -> "parsing_request"
    [] kind = "sendAuthorizationResponse" -> "creating_presentation"
    [] OTHER -> step

\* setCurrentStep before the legacy implementation is awaited
LegacyStep(kind, step) ==
  CASE kind = "handleAuthorizationRequest" -> "fetching_verifier_metadata"
    [] kind = "sendAuthorizationResponse" -> "sending_response"
    [] OTHER -> step

\* setCurrentStep after the legacy implementation returned
LegacyDoneStep(kind, step) ==
  CASE kind = "handleAuthorizationRequest" -> "awaiting_credential_selection"
    [] kind = "sendAuthorizationResponse" -> "completed"
    [] OTHER -> step

NoVCI == [credentialOfferUri |-> FALSE, credentialOffer |-> FALSE, holderBinding |-> FALSE,
          credentialConfigurationId |-> FALSE, authorizationCode |-> FALSE,
          preAuthorizedCode |-> FALSE]

\* the params object each operation passes to the transport; arg: the argument is truthy
VCIArgs(kind, arg) ==
  CASE kind = "handleCredentialOffer" -> [NoVCI EXCEPT !.credentialOfferUri = arg]
    [] kind = "handleAuthorizationResponse" -> [NoVCI EXCEPT !.authorizationCode = arg]
    [] OTHER -> [NoVCI EXCEPT !.preAuthorizedCode = arg]

VPArgs(kind, arg) ==
  IF kind = "handleAuthorizationRequest"
  THEN [authorizationRequestUri |-> arg, selectedCredentials |-> FALSE]
  ELSE [authorizationRequestUri |-> FALSE, selectedCredentials |-> arg]

NoResult == [state |-> "none"]
NoOp == [st |-> "idle", kind |-> "none", path |-> "none", req |-> 0, result |-> NoResult]
InitHook == [isLoading |-> FALSE, error |-> "none", step |-> "idle", heard |-> 0]

InitHooks ==
  /\ ops = [k \in Ops |-> NoOp]
  /\ hook = [h \in Hooks |-> InitHook]
  /\ progressSubs = {}
  /\ errorSubs = {}

\* a catch block that lets the error escape
Caught_Rethrows(kind, message) == [state |-> "rejected", message |-> message]

\* the value the catch block of an operation returns
Caught(kind, message) ==
  [state |-> "fulfilled",
   value |-> [success |-> FALSE, code |-> CatchCode(kind), message |-> message]]

\* the catch and finally blocks: setError, setCurrentStep('error') in useOID4VPFlow,
\* onError?.(error), setIsLoading(false)
AfterCatch(h, hk, message) ==
  [hk EXCEPT !.isLoading = FALSE,
             !.error = message,
             !.step = IF h = "vp" THEN "error" ELSE @,
             !.heard = IF hookOptions.onError THEN @ + 1 ELSE @]

\* an unsubscribe function that leaves the callback in the set
Unsubscribed_Kept(set, subscribed, h) == set

\* unsubscribeProgress() / unsubscribeError(): () => set.delete(callback), or () => {}
\* when the callback was not supplied
Unsubscribed(set, subscribed, h) == IF subscribed THEN set \ {h} ELSE set

FirstIdle == CHOOSE k \in Ops : ops[k].st = "idle" /\ \A j \in Ops : j < k => ops[j].st # "idle"

\* the message of the error thrown when neither branch of the operation applies
NoTransportText(kind, tt) ==
  IF kind = "requestWithPreAuthorization" /\ tt = "http"
  THEN "Pre-authorization flow via HTTP transport requires additional state management"
  ELSE "No transport available"

\* an operation of a hook is called; it runs up to its first await, or to its end
\* when it throws before awaiting anything
OpStart(kind, tt, arg, throws) ==
  LET k == FirstIdle
      h == HookOf(kind)
      begun == [hook[h] EXCEPT !.isLoading = TRUE, !.error = "none",
                               !.step = FirstStep(kind, @)]
      options == hookOptions
      op == [st |-> "awaiting", kind |-> kind, path |-> tt, req |-> 0, result |-> NoResult]
  IN
  /\ \E j \in Ops : ops[j].st = "idle"
  /\ IF tt = "websocket"
     THEN /\ progressSubs' = IF options.onProgress THEN progressSubs \cup {h} ELSE progressSubs
          /\ errorSubs' = IF options.onError /\ SubscribesError(kind)
                          THEN errorSubs \cup {h} ELSE errorSubs
          /\ IF h = "vci"
             THEN StartOID4VCIFlow(1, VCIArgs(kind, arg), throws)
             ELSE StartOID4VPFlow(1, VPArgs(kind, arg), throws)
          /\ ops' = [ops EXCEPT ![k] = [op EXCEPT !.req = reqN + 1]]
          /\ hook' = [hook EXCEPT ![h] = begun]
     ELSE /\ ~throws /\ arg
          /\ IF tt = "http" /\ kind # "requestWithPreAuthorization"
             THEN /\ ops' = [ops EXCEPT ![k] = op]
                  /\ hook' = [hook EXCEPT ![h] = [begun EXCEPT !.step = LegacyStep(kind, @)]]
             ELSE /\ ops' = [ops EXCEPT ![k] =
                               [op EXCEPT !.st = "done",
                                          !.result = Caught(kind, NoTransportText(kind, tt))]]
                  /\ hook' = [hook EXCEPT ![h] =
                                AfterCatch(h, begun, NoTransportText(kind, tt))]
          /\ UNCHANGED <<progressSubs, errorSubs>>
          /\ UNCHANGED <<tCount, connVars, waitVars, reVars, reqVars, evVars, histVars>>
          /\ UNCHANGED <<provVars, cacheVars, flowVars>>
  /\ UNCHANGED <<httpVars, hookOptions>>
  /\ UNCHANGED <<obsVars, refreshVars, txVars>>

\* outcomes of the legacy implementation: it returns, throws, or (handleAuthorizationRequest
\* only) returns an object with an error field
LegacyOutcomes == {"ok", "throws", "error"}

\* the operation resumes after its await and runs to its end
OpFinish(k, out) ==
  LET kind == ops[k].kind
      h == HookOf(kind)
      options == hookOptions
      call == CallResult(ops[k].req)
  IN
  /\ ops[k].st = "awaiting"
  /\ IF ops[k].path = "websocket"
     THEN /\ out = "ok"
          /\ call.state # "pending"
          /\ progressSubs' = Unsubscribed(progressSubs, options.onProgress, h)
          /\ errorSubs' = Unsubscribed(errorSubs, options.onError /\ SubscribesError(kind), h)
          /\ IF call.state = "fulfilled"
             THEN /\ ops' = [ops EXCEPT ![k] = [@ EXCEPT !.st = "done", !.result = call]]
                  /\ hook' = [hook EXCEPT ![h] = [@ EXCEPT !.isLoading = FALSE]]
             ELSE /\ ops' = [ops EXCEPT ![k] =
                               [@ EXCEPT !.st = "done", !.result = Caught(kind, call.message)]]
                  /\ hook' = [hook EXCEPT ![h] = AfterCatch(h, @, call.message)]
     ELSE /\ out = "error" => kind = "handleAuthorizationRequest"
          /\ UNCHANGED <<progressSubs, errorSubs>>
          /\ CASE out = "ok" ->
                    /\ ops' = [ops EXCEPT ![k] =
                                 [@ EXCEPT !.st = "done",
                                           !.result = [state |-> "fulfilled",
                                                       value |-> [success |-> TRUE,
                                                                  code |-> "absent",
                                                                  message |-> "absent"]]]]
                    /\ hook' = [hook EXCEPT ![h] = [@ EXCEPT !.isLoading = FALSE,
                                                             !.step = LegacyDoneStep(kind, @)]]
               [] out = "throws" ->
                    /\ ops' = [ops EXCEPT ![k] =
                                 [@ EXCEPT !.st = "done", !.result = Caught(kind, "legacy error")]]
                    /\ hook' = [hook EXCEPT ![h] = AfterCatch(h, @, "legacy error")]
               [] out = "error" ->
                    /\ ops' = [ops EXCEPT ![k] =
                                 [@ EXCEPT !.st = "done",
                                           !.result = [state |-> "fulfilled",
                                                       value |-> [success |-> FALSE,
                                                                  code |-> "VP_ERROR",
                                                                  message |-> "Unknown error"]]]]
                    /\ hook' = [hook EXCEPT ![h] = [@ EXCEPT !.isLoading = FALSE,
                                                             !.step = "error"]]
  /\ UNCHANGED <<httpVars, hookOptions>>
  /\ UNCHANGED <<tCount, connVars, waitVars, reVars, reqVars, evVars, histVars>>
  /\ UNCHANGED <<provVars, cacheVars, flowVars>>
  /\ UNCHANGED <<obsVars, refreshVars, txVars>>


\* onError(callback) and the unsubscribe function it returns
Subscribe(t) ==
  /\ t \in 1..tCount
  /\ "user" \notin errorCallbacks[t]
  /\ errorCallbacks' = [errorCallbacks EXCEPT ![t] = @ \cup {"user"}]
  /\ UNCHANGED <<tCount, connVars, waitVars, reVars, reqVars, errSeen, progressLog, histVars>>
  /\ UNCHANGED <<provVars, cacheVars>>
  /\ UNCHANGED <<flowVars, facadeVars>>
  /\ UNCHANGED <<obsVars, refreshVars, txVars>>

Unsubscribe(t) ==
  /\ t \in 1..tCount
  /\ "user" \in errorCallbacks[t]
  /\ errorCallbacks' = [errorCallbacks EXCEPT ![t] = @ \ {"user"}]
  /\ UNCHANGED <<tCount, connVars, waitVars, reVars, reqVars, errSeen, progressLog, histVars>>
  /\ UNCHANGED <<provVars, cacheVars>>
  /\ UNCHANGED <<flowVars, facadeVars>>
  /\ UNCHANGED <<obsVars, refreshVars, txVars>>

\* what onProgress / onError and their unsubscribe functions leave alone
SubscribeRest == <<tCount, connVars, waitVars, reVars, reqVars, evVars, histVars, provVars,
                   cacheVars, flowVars, httpVars, hookOptions, ops, hook, obsVars, refreshVars, txVars>>

\* transport.onProgress(cb): this.progressCallbacks.add(callback)
onProgress(cb) ==
  /\ progressSubs' = progressSubs \cup {cb}
  /\ UNCHANGED <<errorSubs, SubscribeRest>>

\* the function onProgress(cb) returned: this.progressCallbacks.delete(callback)
unsubscribeProgress(cb) ==
  /\ cb \in progressSubs
  /\ progressSubs' = progressSubs \ {cb}
  /\ UNCHANGED <<errorSubs, SubscribeRest>>

\* transport.onError(cb): this.errorCallbacks.add(callback)
onError(cb) ==
  /\ errorSubs' = errorSubs \cup {cb}
  /\ UNCHANGED <<progressSubs, SubscribeRest>>

\* the function onError(cb) returned: this.errorCallbacks.delete(callback)
unsubscribeError(cb) ==
  /\ cb \in errorSubs
  /\ errorSubs' = errorSubs \ {cb}
  /\ UNCHANGED <<progressSubs, SubscribeRest>>

\* ----- FlowTransportProvider ---------------------------------------------

TransportTypes == {"websocket", "http", "direct"}

\* @/config. The effects and callbacks read WEBSOCKET_TRANSPORT_ALLOWED and WS_URL only,
\* which are state here; the memoised selections read the preference list and the other
\* flags, so they are operators of the list and the properties range over every list
\* the build may have.
WEBSOCKET_TRANSPORT_ALLOWED == cfg.wsAllowed
WS_URL == cfg.wsUrl

\* an ordered list of distinct transport types
Prefs == {p \in UNION {[1..n -> TransportTypes] : n \in 0..3} :
            \A i, j \in DOMAIN p : p[i] = p[j] => i = j}
Listed(p, type) == \E i \in DOMAIN p : p[i] = type
TRANSPORT_PREFERENCE == {p \in Prefs : Listed(p, "websocket") <=> WEBSOCKET_TRANSPORT_ALLOWED}
HTTP_TRANSPORT_ALLOWED(p) == Listed(p, "http")
DIRECT_TRANSPORT_ALLOWED(p) == Listed(p, "direct")

\* availableTransports without the capability gate
availableTransports_Ungated(p) ==
  {x \in {"http"} : HTTP_TRANSPORT_ALLOWED(p)}
    \cup {x \in {"websocket"} : WEBSOCKET_TRANSPORT_ALLOWED /\ WS_URL}
    \cup {x \in {"direct"} : DIRECT_TRANSPORT_ALLOWED(p)}

\* useMemo availableTransports
availableTransports(p) ==
  {x \in {"http"} : HTTP_TRANSPORT_ALLOWED(p)}
    \cup {x \in {"websocket"} : WEBSOCKET_TRANSPORT_ALLOWED /\ WS_URL /\ wsCapabilityAvailable}
    \cup {x \in {"direct"} : DIRECT_TRANSPORT_ALLOWED(p)}

\* useMemo httpTransport is not null
httpTransport(p) == HTTP_TRANSPORT_ALLOWED(p)

\* a selection switch that returns the websocket transport as soon as an instance exists
Returns_InstanceOnly(p, pref) ==
  CASE pref = "websocket" -> wsTransport # 0
    [] pref = "http" -> httpTransport(p)
    [] OTHER -> FALSE

\* the switch of the selection loop returns for this preference
Returns(p, pref) ==
  CASE pref = "websocket" -> wsTransport # 0 /\ pIsConnected
    [] pref = "http" -> httpTransport(p)
    [] OTHER -> FALSE

\* useMemo { transport, transportType }: first preference that is available and returns
Selectable(p) == {i \in DOMAIN p : p[i] \in availableTransports(p) /\ Returns(p, p[i])}
transportType(p) ==
  IF Selectable(p) = {} THEN "none"
  ELSE p[CHOOSE i \in Selectable(p) : \A j \in Selectable(p) : i <= j]

\* useMemo { transport, transportType }: the object returned with the type
transport(p) ==
  CASE transportType(p) = "websocket" -> "wsTransport"
    [] transportType(p) = "http" -> "httpTransport"
    [] OTHER -> "nullTransport"

\* the context value's isConnected
valueIsConnected(p) ==
  IF transportType(p) = "websocket" THEN pIsConnected ELSE transportType(p) = "http"

\* the body of the WebSocket effect constructs a transport
Creates(tok, loaded, cap) ==
  loaded /\ WEBSOCKET_TRANSPORT_ALLOWED /\ cap /\ WS_URL /\ tok # 0

\* the WebSocket effect re-runs: cleanup of the previous run (unsubscribeError(); ws.disconnect()),
\* then the body under the new dependencies; the updateAuthToken effect of the same commit
\* and of the commit that follows setWsTransport
WsEffect(tok, loaded, cap) ==
  LET old == effInst
      closing == old # 0 /\ ws[old] # 0
      closed == IF closing THEN ClientClose(ws[old]) ELSE sock
      create == Creates(tok, loaded, cap)
      inst == tCount + 1
  IN
  /\ create => tCount < MaxInst /\ FreeSlots # {}
  /\ IF closing THEN RejectAllPending(old) ELSE UNCHANGED reqVars
  /\ sock' = IF create THEN [closed EXCEPT ![NextSlot] = NewSock(inst, tok)] ELSE closed
  /\ ws' = [t \in Insts |-> IF create /\ t = inst THEN NextSlot
                            ELSE IF t = old THEN 0 ELSE ws[t]]
  /\ connectionPromise' = [t \in Insts |-> IF create /\ t = inst THEN NextSlot
                                           ELSE IF t = old THEN 0 ELSE connectionPromise[t]]
  /\ errorCallbacks' = [t \in Insts |-> IF create /\ t = inst THEN {"prov"}
                                        ELSE IF t = old THEN errorCallbacks[t] \ {"prov"}
                                        ELSE errorCallbacks[t]]
  /\ provWait' = IF create THEN [provWait EXCEPT ![NextSlot] = {"eff"}] ELSE provWait
  /\ tCount' = IF create THEN inst ELSE tCount
  /\ effInst' = IF create THEN inst ELSE 0
  /\ wsTransport' = IF create THEN inst ELSE IF loaded THEN 0 ELSE wsTransport
  /\ pIsConnected' = IF loaded /\ ~create THEN FALSE ELSE pIsConnected
  /\ tAuth' = [t \in Insts |-> IF tok # 0 /\ ((create /\ t = inst) \/ t = wsTransport)
                               THEN tok ELSE tAuth[t]]

\* getEngineCapabilities() of the mount effect settles
CapabilitiesResolve(outcome) ==
  /\ capFetch = "inflight"
  /\ capFetch' = "done"
  /\ capabilitiesLoaded' = TRUE
  /\ wsCapabilityAvailable' = (outcome = "websocket")
  /\ WsEffect(authToken, TRUE, outcome = "websocket")
  /\ UNCHANGED <<authToken, lastError, cfg, autoWait, connSt, connP, reVars, errSeen,
                 progressLog, histVars, cacheVars>>
  /\ UNCHANGED <<flowVars, facadeVars>>
  /\ UNCHANGED <<obsVars, refreshVars, txVars>>

\* the parent re-renders the provider with another authToken
SetAuthToken(tok) ==
  /\ tok # authToken
  /\ authToken' = tok
  /\ WsEffect(tok, capabilitiesLoaded, wsCapabilityAvailable)
  /\ UNCHANGED <<capabilitiesLoaded, wsCapabilityAvailable, capFetch, lastError, cfg,
                 autoWait, connSt, connP, reVars, errSeen, progressLog, histVars, cacheVars>>
  /\ UNCHANGED <<flowVars, facadeVars>>
  /\ UNCHANGED <<obsVars, refreshVars, txVars>>

\* reconnect() of the context value
Reconnect ==
  LET t == wsTransport IN
  /\ t # 0
  /\ WEBSOCKET_TRANSPORT_ALLOWED
  /\ ConnectGuard(t)
  /\ ConnectCore(t)
  /\ IF ConnectCase(t) = "open"
     THEN /\ pIsConnected' = TRUE
          /\ lastError' = FALSE
          /\ UNCHANGED provWait
     ELSE /\ provWait' = [provWait EXCEPT ![ConnectTarget(t)] = @ \cup {"rec"}]
          /\ UNCHANGED <<pIsConnected, lastError>>
  /\ UNCHANGED <<tCount, autoWait, connSt, connP, reVars, reqVars, evVars, histVars,
                 provRest, cacheVars>>
  /\ UNCHANGED <<flowVars, facadeVars>>
  /\ UNCHANGED <<obsVars, refreshVars, txVars>>

\* clearError() of the context value
clearError ==
  /\ lastError
  /\ lastError' = FALSE
  /\ UNCHANGED <<tCount, connVars, waitVars, reVars, reqVars, evVars, histVars,
                 pIsConnected, provRest, cacheVars>>
  /\ UNCHANGED <<flowVars, facadeVars>>
  /\ UNCHANGED <<obsVars, refreshVars, txVars>>

\* ----- CapabilitiesService ------------------------------------------------

\* Capabilities: known capability strings (two of them)
CapNames == {"websocket", "proxy"}

\* a manifest that wrongly advertises a capability
emptyStatus_Advertises ==
  [status |-> "ok", service |-> "unknown", roles |-> <<>>, api_version |-> 1,
   capabilities |-> {"websocket"}]

\* the manifest synthesized for backends without /status
emptyStatus ==
  [status |-> "ok", service |-> "unknown", roles |-> <<>>, api_version |-> 1,
   capabilities |-> {}]

\* the StatusResponse a call hands back: the synthesized one or the one the endpoint sent
Manifest(u, out) ==
  IF out = "empty" THEN emptyStatus
  ELSE [status |-> "ok", service |-> "wallet", roles |-> <<>>, api_version |-> 1,
        capabilities |-> serverCaps[u]]

\* fetchBackendStatus / fetchEngineStatus and the queries built on them only await
\* fetchStatusCached: they reject exactly when it throws
QueryRejects(out) == out = "throws"

\* hasBackendCapability / hasEngineCapability / isWebSocketAvailable:
\* status?.capabilities?.includes(capability) ?? false
hasCapability(u, out, capability) ==
  IF out = "null" THEN FALSE ELSE capability \in Manifest(u, out).capabilities

\* getEngineCapabilities / getBackendCapabilities: status?.capabilities ?? []
getCapabilities(u, out) == IF out = "null" THEN {} ELSE Manifest(u, out).capabilities

\* Date.now() advances in steps of half a TTL
TickMs == CACHE_TTL \div 2

\* if (cached && (now - cached.fetchedAt) < CACHE_TTL)
Fresh(cached, at) == cached.present /\ (at - cached.fetchedAt) < CACHE_TTL

\* what a fresh entry makes the call do: throw the cached error or return the cached response
FromCache(cached) == IF cached.result = "error" THEN "throws" ELSE cached.result

\* how the fetch ended: 200 with a body, 404, or any other response or failure
FetchOutcomes == {"status", "empty", "error"}

\* what fetchStatusCached returns after the fetch: the status, the empty status, or null
Returned(outcome) == IF outcome = "error" THEN "null" ELSE outcome

FirstUnused == CHOOSE c \in CallIds : calls[c].st = "unused" /\ \A d \in CallIds : calls[d].st = "unused" => c <= d

\* fetchStatusCached(baseUrl) runs up to its return or to its await fetch(...)
CallStart(u) ==
  LET c == FirstUnused IN
  /\ \E d \in CallIds : calls[d].st = "unused"
  /\ IF Fresh(statusCache[u], now)
     THEN /\ calls' = [calls EXCEPT ![c] = [st |-> "done", url |-> u, at |-> now,
                                             out |-> FromCache(statusCache[u])]]
          /\ UNCHANGED <<netCount, lastNet>>
     ELSE /\ calls' = [calls EXCEPT ![c] = [st |-> "fetching", url |-> u, at |-> now,
                                             out |-> "none"]]
          /\ netCount' = [netCount EXCEPT ![u] = @ + 1]
          /\ lastNet' = [lastNet EXCEPT ![u] = now]
  /\ UNCHANGED <<now, statusCache, serverCaps>>
  /\ UNCHANGED <<tCount, connVars, waitVars, reVars, reqVars, evVars, histVars, provVars>>
  /\ UNCHANGED <<flowVars, facadeVars>>
  /\ UNCHANGED <<obsVars, refreshVars, txVars>>

\* the fetch of call c settles and the call resumes: statusCache.set(baseUrl, {..., fetchedAt: now})
\* with the now the call read when it started
CallResume(c, outcome) ==
  /\ calls[c].st = "fetching"
  /\ statusCache' = [statusCache EXCEPT ![calls[c].url] =
                       [present |-> TRUE, fetchedAt |-> calls[c].at, result |-> outcome]]
  /\ calls' = [calls EXCEPT ![c].st = "done", ![c].out = Returned(outcome)]
  /\ UNCHANGED <<now, netCount, lastNet, serverCaps>>
  /\ UNCHANGED <<tCount, connVars, waitVars, reVars, reqVars, evVars, histVars, provVars>>
  /\ UNCHANGED <<flowVars, facadeVars>>
  /\ UNCHANGED <<obsVars, refreshVars, txVars>>

\* clearStatusCache()
clearStatusCache ==
  /\ \E u \in Endpoints : statusCache[u].present \/ lastNet[u] >= 0
  /\ statusCache' = [u \in Endpoints |-> NoEntry]
  /\ lastNet' = [u \in Endpoints |-> -1]
  /\ UNCHANGED <<now, calls, netCount, serverCaps>>
  /\ UNCHANGED <<tCount, connVars, waitVars, reVars, reqVars, evVars, histVars, provVars>>
  /\ UNCHANGED <<flowVars, facadeVars>>
  /\ UNCHANGED <<obsVars, refreshVars, txVars>>

\* time passes
Tick ==
  /\ now < MaxTicks * TickMs
  /\ now' = now + TickMs
  /\ UNCHANGED <<statusCache, calls, netCount, lastNet, serverCaps>>
  /\ UNCHANGED <<tCount, connVars, waitVars, reVars, reqVars, evVars, histVars, provVars>>
  /\ UNCHANGED <<flowVars, facadeVars>>
  /\ UNCHANGED <<obsVars, refreshVars, txVars>>

(***************************************************************************)
(* TxCodeInputProvider: requestTxCode, handleSubmit, handleCancel          *)
(***************************************************************************)
TxIds == 1..MaxTx
TxCodes == {"123456", "000000"}
NoTx == [st |-> "unused", value |-> "none"]
CancelText == "User cancelled transaction code input"

InitTxCode ==
  /\ txPromise = [i \in TxIds |-> NoTx]
  /\ pendingRef = 0
  /\ txState = [isOpen |-> FALSE]

\* everything outside the provider
TxRest == <<tCount, connVars, waitVars, reVars, reqVars, evVars, histVars, provVars,
            cacheVars, flowVars, facadeVars, obsVars, refreshVars>>

\* requestTxCode(config): new Promise, its handlers stored in pendingRef (whatever it
\* held), popup opened
requestTxCode ==
  LET i == CHOOSE j \in TxIds : txPromise[j].st = "unused" /\
                                 \A k \in TxIds : txPromise[k].st = "unused" => j <= k
  IN
  /\ \E j \in TxIds : txPromise[j].st = "unused"
  /\ txPromise' = [txPromise EXCEPT ![i] = [st |-> "pending", value |-> "none"]]
  /\ pendingRef' = i
  /\ txState' = [isOpen |-> TRUE]
  /\ UNCHANGED TxRest

\* handleSubmit(code)
handleSubmit(code) ==
  /\ IF pendingRef # 0
     THEN /\ txPromise' = [txPromise EXCEPT ![pendingRef] = [st |-> "resolved", value |-> code]]
          /\ pendingRef' = 0
     ELSE UNCHANGED <<txPromise, pendingRef>>
  /\ txState' = [txState EXCEPT !.isOpen = FALSE]
  /\ UNCHANGED TxRest

\* handleCancel()
handleCancel ==
  /\ IF pendingRef # 0
     THEN /\ txPromise' = [txPromise EXCEPT ![pendingRef] =
                             [st |-> "rejected", value |-> CancelText]]
          /\ pendingRef' = 0
     ELSE UNCHANGED <<txPromise, pendingRef>>
  /\ txState' = [txState EXCEPT !.isOpen = FALSE]
  /\ UNCHANGED TxRest

(***************************************************************************)
(* api/tokenRefresh: refreshAccessToken, performRefresh, withTokenRefresh  *)
(***************************************************************************)
RefreshIds == 1..MaxRefresh
WrapIds == 1..MaxWrap

\* what the POST to /user/token/refresh can come to: 200 with appToken and refreshToken,
\* 200 with appToken only, 200 without appToken, an HTTP error status, no response at all
PostOutcomes == {"rotated", "token", "empty", "401", "403", "500", "network"}

\* what requestFn can come to: a value, an HTTP error status, no response at all
RequestOutcomes == {"ok", "401", "403", "500", "network"}

NoRefreshResult == [state |-> "none", success |-> FALSE]
NoRefresh == [st |-> "unused", promise |-> 0, owner |-> FALSE, result |-> NoRefreshResult]
NoWrap == [st |-> "unused", attempts |-> 0, refreshes |-> 0, rc |-> 0, err |-> "none",
           out |-> "none"]

InitRefresh ==
  /\ isRefreshing = FALSE
  /\ refreshPromise = 0
  /\ posts = [c \in RefreshIds |-> "none"]
  /\ rCalls = [c \in RefreshIds |-> NoRefresh]
  /\ session = [appToken |-> 0, refreshToken |-> 0, cleared |-> 0]
  /\ wCalls = [w \in WrapIds |-> NoWrap]

restVars == <<tCount, connVars, waitVars, reVars, reqVars, evVars, histVars, provVars,
              cacheVars, flowVars, facadeVars, obsVars, txVars>>

\* a refreshAccessToken that starts a refresh of its own on every call
Joins_Never == FALSE

\* refreshAccessToken: if (isRefreshing && refreshPromise) return refreshPromise
Joins == isRefreshing /\ refreshPromise # 0

\* performRefresh: { success: true, ... } when response.data.appToken is there,
\* { success: false } otherwise and from the catch block
performRefresh(outcome) == [state |-> "fulfilled", success |-> outcome \in {"rotated", "token"}]

\* a catch block that clears the session on every failed refresh
ClearsSession_AnyFailure(outcome) == outcome \in {"401", "403", "500", "network"}

\* performRefresh, catch: if (status === 401 || status === 403) config.clearSession()
ClearsSession(outcome) == outcome \in {"401", "403"}

\* performRefresh: the calls of config.setAppToken, setRefreshToken and clearSession
SessionAfter(s, outcome) ==
  [appToken |-> IF outcome \in {"rotated", "token"} THEN s.appToken + 1 ELSE s.appToken,
   refreshToken |-> IF outcome = "rotated" THEN s.refreshToken + 1 ELSE s.refreshToken,
   cleared |-> IF ClearsSession(outcome) THEN s.cleared + 1 ELSE s.cleared]

FirstRefresh == CHOOSE c \in RefreshIds :
                  rCalls[c].st = "unused" /\ \A d \in RefreshIds : rCalls[d].st = "unused" => c <= d

\* refreshAccessToken(config), up to its await; hasToken: config.getRefreshToken() is not null
RefreshAccessToken(c, hasToken) ==
  /\ \E d \in RefreshIds : rCalls[d].st = "unused"
  /\ c = FirstRefresh
  /\ IF ~hasToken
     THEN /\ rCalls' = [rCalls EXCEPT ![c] =
                          [NoRefresh EXCEPT !.st = "returned",
                                            !.result = [state |-> "fulfilled", success |-> FALSE]]]
          /\ UNCHANGED <<isRefreshing, refreshPromise, posts>>
     ELSE IF Joins
     THEN /\ rCalls' = [rCalls EXCEPT ![c] =
                          [NoRefresh EXCEPT !.st = "awaiting", !.promise = refreshPromise]]
          /\ UNCHANGED <<isRefreshing, refreshPromise, posts>>
     ELSE /\ isRefreshing' = TRUE
          /\ refreshPromise' = c
          /\ posts' = [posts EXCEPT ![c] = "inflight"]
          /\ rCalls' = [rCalls EXCEPT ![c] =
                          [NoRefresh EXCEPT !.st = "awaiting", !.promise = c, !.owner = TRUE]]
  /\ UNCHANGED <<session, restVars>>

\* the POST of performRefresh(p) settles and performRefresh runs to its return
PostSettles(p, outcome) ==
  /\ posts[p] = "inflight"
  /\ posts' = [posts EXCEPT ![p] = outcome]
  /\ session' = SessionAfter(session, outcome)
  /\ UNCHANGED <<isRefreshing, refreshPromise, rCalls, wCalls, restVars>>

\* refreshAccessToken continues after the promise it awaits has settled; the call that
\* created the promise runs its finally block
RefreshReturns(c) ==
  /\ rCalls[c].st = "awaiting"
  /\ posts[rCalls[c].promise] \in PostOutcomes
  /\ rCalls' = [rCalls EXCEPT ![c].st = "returned",
                              ![c].result = performRefresh(posts[rCalls[c].promise])]
  /\ IF rCalls[c].owner
     THEN isRefreshing' = FALSE /\ refreshPromise' = 0
     ELSE UNCHANGED <<isRefreshing, refreshPromise>>
  /\ UNCHANGED <<posts, session, wCalls, restVars>>

isUnauthorizedError(error) == error = "401"

\* a withTokenRefresh that refreshes after every 401, also on the retry
MayRefresh_OnRetry(retried, error) == isUnauthorizedError(error)

\* withTokenRefresh, catch: if (!retried && isUnauthorizedError(error))
MayRefresh(retried, error) == ~retried /\ isUnauthorizedError(error)

FirstWrap == CHOOSE w \in WrapIds :
               wCalls[w].st = "unused" /\ \A x \in WrapIds : wCalls[x].st = "unused" => w <= x

\* withTokenRefresh(requestFn, refreshConfig): the first await requestFn()
WithTokenRefresh(w) ==
  /\ \E x \in WrapIds : wCalls[x].st = "unused"
  /\ w = FirstWrap
  /\ wCalls' = [wCalls EXCEPT ![w] = [NoWrap EXCEPT !.st = "first", !.attempts = 1]]
  /\ UNCHANGED <<isRefreshing, refreshPromise, posts, rCalls, session, restVars>>

\* requestFn() settles: the value is returned, or the catch block refreshes or rethrows
RequestSettles(w, outcome, hasToken) ==
  /\ wCalls[w].st \in {"first", "second"}
  /\ IF outcome = "ok"
     THEN /\ wCalls' = [wCalls EXCEPT ![w].st = "returned", ![w].out = "value"]
          /\ UNCHANGED <<isRefreshing, refreshPromise, posts, rCalls, session, restVars>>
     ELSE IF MayRefresh(wCalls[w].st = "second", outcome)
     THEN /\ RefreshAccessToken(FirstRefresh, hasToken)
          /\ wCalls' = [wCalls EXCEPT ![w].st = "refreshing", ![w].rc = FirstRefresh,
                                      ![w].refreshes = @ + 1, ![w].err = outcome]
     ELSE /\ wCalls' = [wCalls EXCEPT ![w].st = "thrown", ![w].err = outcome,
                                      ![w].out = outcome]
          /\ UNCHANGED <<isRefreshing, refreshPromise, posts, rCalls, session, restVars>>

\* the awaited refreshAccessToken has returned: retry with retried = true, or throw error
RefreshAwaited(w) ==
  LET result == rCalls[wCalls[w].rc].result IN
  /\ wCalls[w].st = "refreshing"
  /\ rCalls[wCalls[w].rc].st = "returned"
  /\ wCalls' = [wCalls EXCEPT ![w] =
       IF result.state = "rejected" THEN [@ EXCEPT !.st = "thrown", !.out = "refresh failed"]
       ELSE IF result.success THEN [@ EXCEPT !.st = "second", !.attempts = @ + 1]
       ELSE [@ EXCEPT !.st = "thrown", !.out = wCalls[w].err]]
  /\ UNCHANGED <<isRefreshing, refreshPromise, posts, rCalls, session, restVars>>

\* ----- specification of one transport driven by arbitrary callers --------
InitFields ==
  /\ ws = [t \in Insts |-> 0]
  /\ connectionPromise = [t \in Insts |-> 0]
  /\ reconnectAttempts = [t \in Insts |-> 0]
  /\ reconnectTimers = [t \in Insts |-> 0]
  /\ pending = [t \in Insts |-> NoPending]
  /\ errorCallbacks = [t \in Insts |-> {}]
  /\ sock = [s \in Socks |-> FreeSock]
  /\ autoWait = [s \in Socks |-> 0]
  /\ provWait = [s \in Socks |-> {}]
  /\ connSt = [c \in Callers |-> "idle"]
  /\ connP = [c \in Callers |-> 0]
  /\ reqN = 0
  /\ reqSt = [r \in Reqs |-> "unused"]
  /\ reqFlow = [r \in Reqs |-> 0]
  /\ reqOwner = [r \in Reqs |-> 0]
  /\ timerOn = [r \in Reqs |-> FALSE]
  /\ settles = [r \in Reqs |-> 0]
  /\ uuidNext = 0
  /\ errSeen = [k \in {"failed", "max"} |-> 0]
  /\ progressLog = {}
  /\ lastApi = "none"
  /\ callerSinceOpen = [t \in Insts |-> FALSE]
  /\ reqApi = [r \in Reqs |-> "none"]
  /\ reqMsg = [r \in Reqs |-> NoReply]
  /\ lastOut = NoMessage
  /\ sentN = 0
  /\ InitHttp
  /\ InitHooks
  /\ progressHeard = [cb \in Hooks |-> 0]
  /\ errorHeard = [cb \in Hooks |-> 0]
  /\ timerDelay = [t \in Insts |-> 0]
  /\ warned = 0
  /\ InitTxCode
  /\ InitRefresh

InitTransport == tCount = 1 /\ InitFields

\* the provider and the capabilities service are not part of the transport specifications
InitProviderIdle ==
  /\ authToken = 0
  /\ pIsConnected = FALSE
  /\ wsTransport = 0
  /\ lastError = FALSE
  /\ capabilitiesLoaded = FALSE
  /\ wsCapabilityAvailable = FALSE
  /\ capFetch = "done"
  /\ effInst = 0
  /\ cfg = [wsAllowed |-> TRUE, wsUrl |-> TRUE]
  /\ tAuth = [t \in Insts |-> IF t = 1 THEN 1 ELSE 0]

InitCacheIdle ==
  /\ now = 0
  /\ statusCache = [u \in Endpoints |-> NoEntry]
  /\ calls = [c \in CallIds |-> NoCall]
  /\ netCount = [u \in Endpoints |-> 0]
  /\ lastNet = [u \in Endpoints |-> -1]
  /\ serverCaps = [u \in Endpoints |-> {}]

Init == InitTransport /\ InitProviderIdle /\ InitCacheIdle /\ hookOptions = NoOptions

\* connection lifecycle of one transport: callers, browser events, reconnect timers
Next ==
  \/ \E t \in Insts, c \in Callers : Connect(t, c)
  \/ \E t \in Insts : Disconnect(t)
  \/ \E s \in Socks : SockOpen(s)
  \/ \E s \in Socks : SockError(s)
  \/ \E s \in Socks, code \in CloseCodes : SockClose(s, code)
  \/ \E t \in Insts : ReconnectTimer(t)
  \/ \E t \in Insts : Subscribe(t)
  \/ \E t \in Insts : Unsubscribe(t)

Spec == Init /\ [][Next]_vars

\* request correlation on one transport: one caller of connect(), requests, server messages
NextReq ==
  \/ \E t \in Insts : Connect(t, 1)
  \/ \E t \in Insts : Disconnect(t)
  \/ \E s \in Socks : SockOpen(s)
  \/ \E s \in Socks : SockError(s)
  \/ \E s \in Socks, code \in CloseCodes : SockClose(s, code)
  \/ \E t \in Insts : ReconnectTimer(t)
  \/ \E t \in Insts, throws \in BOOLEAN : Send(t, throws) /\ UNCHANGED <<flowVars, facadeVars>>
  \/ \E r \in Reqs : RequestTimeout(r)
  \/ \E s \in Socks, f \in FlowIds, type \in MsgTypes : Message(s, f, type) /\ UNCHANGED <<flowVars, facadeVars>>

\* the three request methods of one transport, its socket and its server; request
\* timeouts and disconnect() are exercised by SpecReq
NextFlow ==
  \/ \E t \in Insts : Connect(t, 1)
  \/ \E s \in Socks : SockOpen(s)
  \/ \E s \in Socks, code \in CloseCodes : SockClose(s, code)
  \/ \E t \in Insts, p \in VCIParams, throws \in BOOLEAN : StartOID4VCIFlow(t, p, throws) /\ UNCHANGED facadeVars
  \/ \E t \in Insts, p \in VPParams, throws \in BOOLEAN : StartOID4VPFlow(t, p, throws) /\ UNCHANGED facadeVars
  \/ \E t \in Insts, throws \in BOOLEAN : Request(t, throws) /\ UNCHANGED facadeVars
  \/ \E s \in Socks, f \in FlowIds, type \in MsgTypes, err \in ErrorPayloads :
        ServerMessage(s, f, type, err) /\ UNCHANGED facadeVars

SpecFlow == Init /\ [][NextFlow]_vars

\* request() calls of one HttpProxyTransport
NextHttp ==
  \/ \E type \in FlowTypes : HttpRequest(type)
  \/ \E c \in HttpCallIds, status \in Statuses : HttpReturns(c, status)
  \/ \E c \in HttpCallIds : HttpThrows(c)
  \/ HttpOnError

SpecHttp == Init /\ [][NextHttp]_vars

\* operations of the two hooks over one WebSocketTransport, the legacy path or no
\* transport, for any set of supplied callbacks; the server closes cleanly (reconnection
\* is exercised by Spec) and its error messages carry a code, with or without a text
InitFacade ==
  /\ InitTransport
  /\ InitProviderIdle
  /\ InitCacheIdle
  /\ hookOptions \in Options

NextFacade ==
  \/ \E t \in Insts : Connect(t, 1)
  \/ \E s \in Socks : SockOpen(s)
  \/ \E s \in Socks : SockClose(s, CLEAN_CLOSE)
  \/ \E r \in Reqs : RequestTimeout(r)
  \/ \E s \in Socks, f \in FlowIds, text \in {"absent", "m"} :
        ServerMessage(s, f, "error", [code |-> "c", message |-> text]) /\ UNCHANGED facadeVars
  \/ \E s \in Socks, f \in FlowIds :
        ServerMessage(s, f, "flow.result", NoError) /\ UNCHANGED facadeVars
  \/ \E kind \in Kinds, tt \in {"websocket", "http", "none"}, arg \in BOOLEAN :
        OpStart(kind, tt, arg, FALSE)
  \/ \E k \in Ops, out \in LegacyOutcomes : OpFinish(k, out)

SpecFacade == InitFacade /\ [][NextFacade]_vars

\* one transport, its requests and everything the server can send under the flowIds it
\* has received, with two callbacks that subscribe to and unsubscribe from progress
\* events at any time
NextProgress ==
  \/ Connect(1, 1)
  \/ \E s \in Socks : SockOpen(s)
  \/ \E s \in Socks : SockClose(s, CLEAN_CLOSE)
  \/ Send(1, FALSE) /\ UNCHANGED <<flowVars, facadeVars>>
  \/ \E r \in Reqs : RequestTimeout(r)
  \/ \E s \in Socks, f \in 1..uuidNext, type \in MsgTypes :
        Message(s, f, type) /\ UNCHANGED <<flowVars, facadeVars>>
  \/ \E cb \in Hooks : onProgress(cb)
  \/ \E cb \in Hooks : unsubscribeProgress(cb)

SpecProgress == Init /\ [][NextProgress]_vars

\* both kinds of event of one transport: the caller connects once and sends requests,
\* the connection is lost uncleanly and the reconnect timers take over; the server sends
\* progress under the flowIds it has received; two callbacks subscribe to and unsubscribe
\* from either kind at any time
NextEmit ==
  \/ lastApi = "none" /\ Connect(1, 1)
  \/ \E s \in Socks : SockOpen(s)
  \/ \E s \in Socks : SockError(s)
  \/ \E s \in Socks : SockClose(s, ABNORMAL_CLOSE)
  \/ ReconnectTimer(1)
  \/ Send(1, FALSE) /\ UNCHANGED <<flowVars, facadeVars>>
  \/ \E s \in Socks, f \in 1..uuidNext :
        Message(s, f, "progress") /\ UNCHANGED <<flowVars, facadeVars>>
  \/ \E cb \in Hooks : onProgress(cb)
  \/ \E cb \in Hooks : unsubscribeProgress(cb)
  \/ \E cb \in Hooks : onError(cb)
  \/ \E cb \in Hooks : unsubscribeError(cb)

SpecEmit == Init /\ [][NextEmit]_vars

\* the requests of one transport with their timers: a setTimeout callback that is due is
\* eventually run by the event loop, whatever else happens
NextLive ==
  \/ Connect(1, 1)
  \/ Disconnect(1)
  \/ \E s \in Socks : SockOpen(s)
  \/ \E s \in Socks : SockError(s)
  \/ \E s \in Socks, code \in CloseCodes : SockClose(s, code)
  \/ ReconnectTimer(1)
  \/ \E throws \in BOOLEAN : Send(1, throws) /\ UNCHANGED <<flowVars, facadeVars>>
  \/ \E r \in Reqs : RequestTimeout(r)
  \/ \E s \in Socks, f \in FlowIds, type \in MsgTypes \ {"progress"} :
        Message(s, f, type) /\ UNCHANGED <<flowVars, facadeVars>>

SpecLive == Init /\ [][NextLive]_vars /\ \A r \in Reqs : WF_vars(RequestTimeout(r))

\* api/tokenRefresh alone
NextRefresh ==
  \/ \E c \in RefreshIds, hasToken \in BOOLEAN : RefreshAccessToken(c, hasToken) /\ UNCHANGED wCalls
  \/ \E p \in RefreshIds, outcome \in PostOutcomes : PostSettles(p, outcome)
  \/ \E c \in RefreshIds : RefreshReturns(c)
  \/ \E w \in WrapIds : WithTokenRefresh(w)
  \/ \E w \in WrapIds, outcome \in RequestOutcomes, hasToken \in BOOLEAN :
        RequestSettles(w, outcome, hasToken)
  \/ \E w \in WrapIds : RefreshAwaited(w)

SpecRefresh == Init /\ [][NextRefresh]_vars

SpecReq == Init /\ [][NextReq]_vars

\* the provider mounted under any configuration and any initial token
InitProv ==
  /\ tCount = 0
  /\ InitFields
  /\ authToken \in {0} \cup Tokens
  /\ pIsConnected = FALSE
  /\ wsTransport = 0
  /\ lastError = FALSE
  /\ capabilitiesLoaded = FALSE
  /\ wsCapabilityAvailable = FALSE
  /\ capFetch = "inflight"
  /\ effInst = 0
  /\ cfg \in [wsAllowed : BOOLEAN, wsUrl : BOOLEAN]
  /\ tAuth = [t \in Insts |-> 0]
  /\ InitCacheIdle
  /\ hookOptions = NoOptions

NextProv ==
  \/ \E outcome \in {"websocket", "other", "throws"} : CapabilitiesResolve(outcome)
  \/ \E tok \in {0} \cup Tokens : SetAuthToken(tok)
  \/ Reconnect
  \/ clearError
  \/ \E s \in Socks : SockOpen(s)
  \/ \E s \in Socks : SockError(s)
  \/ \E s \in Socks, code \in CloseCodes : SockClose(s, code)
  \/ \E t \in Insts : ReconnectTimer(t)

SpecProv == InitProv /\ [][NextProv]_vars

\* the status cache of the capabilities service under any interleaving of calls
NextCache ==
  \/ \E u \in Endpoints : CallStart(u)
  \/ \E c \in CallIds, outcome \in FetchOutcomes : CallResume(c, outcome)
  \/ clearStatusCache
  \/ Tick

\* the endpoint's manifest lists any set of capabilities
InitCache ==
  /\ InitTransport
  /\ InitProviderIdle
  /\ now = 0
  /\ statusCache = [u \in Endpoints |-> NoEntry]
  /\ calls = [c \in CallIds |-> NoCall]
  /\ netCount = [u \in Endpoints |-> 0]
  /\ lastNet = [u \in Endpoints |-> -1]
  /\ serverCaps \in [Endpoints -> SUBSET CapNames]
  /\ hookOptions = NoOptions

SpecCache == InitCache /\ [][NextCache]_vars

\* ----- properties --------------------------------------------------------

Created == {s \in Socks : sock[s].st = "FREE" /\ sock'[s].st # "FREE"}
Opens(s) == sock[s].st = "CONNECTING" /\ sock'[s].st = "OPEN"
Closes(s) == sock[s].st # "FREE" /\ sock'[s].st = "FREE"

Accepted(r) == reqFlow[r] # 0

C2_SettledOnce ==
  /\ \A r \in Reqs : settles[r] <= 1
  /\ \A r \in Reqs : Accepted(r) =>
       /\ reqSt[r] \in {"pending", "fulfilled", "rej_error", "rej_timeout",
                        "rej_disconnected", "rej_send"}
       /\ reqSt[r] = "pending" <=> pending[reqOwner[r]][reqFlow[r]] = r
       /\ reqSt[r] = "pending" <=> settles[r] = 0
       /\ reqSt[r] = "pending" <=> timerOn[r]
  /\ \A r1, r2 \in Reqs :
       r1 # r2 /\ reqSt[r1] = "pending" /\ reqSt[r2] = "pending" => reqFlow[r1] # reqFlow[r2]
  /\ \A t \in Insts, f \in FlowIds :
       pending[t][f] # 0 => reqSt[pending[t][f]] = "pending" /\ reqFlow[pending[t][f]] = f

C2_Witness ==
  /\ reqSt[1] = "fulfilled" /\ reqSt[2] = "rej_timeout"
  /\ settles[1] = 1 /\ settles[2] = 1
  /\ pending[1] = NoPending

\* C3: when a close event is handled, or disconnect() is called, every request that was
\* pending is rejected with 'WebSocket disconnected' and the pending table is empty.
C3_DisconnectRejectsAll ==
  [][ \A t \in Insts :
        ((\E s \in Socks : Closes(s) /\ sock[s].owner = t) \/ Disconnect(t)) =>
           /\ \A r \in PendingReqs(t) : reqSt'[r] = "rej_disconnected"
           /\ pending'[t] = NoPending
    ]_vars

C3_Witness ==
  /\ reqSt[1] = "rej_disconnected" /\ reqSt[2] = "rej_disconnected"
  /\ pending[1] = NoPending
  /\ ws[1] = 0

\* C4: the timeout of one request rejects that request only and removes its entry only;
\* every other request keeps its state, its entry and its timer.
TimesOut(r) == timerOn[r] /\ ~timerOn'[r] /\ reqSt[r] = "pending" /\ reqSt'[r] = "rej_timeout"

C4_TimeoutIsolation ==
  [][ \A r \in Reqs : TimesOut(r) =>
        /\ \A q \in Reqs \ {r} : reqSt'[q] = reqSt[q] /\ timerOn'[q] = timerOn[q]
        /\ \A f \in FlowIds \ {reqFlow[r]} : pending'[reqOwner[r]][f] = pending[reqOwner[r]][f]
        /\ pending'[reqOwner[r]][reqFlow[r]] = 0
    ]_vars

C4_Witness ==
  /\ reqSt[1] = "rej_timeout"
  /\ reqSt[2] = "pending" /\ timerOn[2] /\ pending[1][reqFlow[2]] = 2
  /\ isConnected(1)

\* C5: after disconnect(), until a caller invokes connect() again, the transport opens
\* no new channel.
C5_NoReconnectAfterDisconnect ==
  [][ lastApi = "disconnect" /\ lastApi' = "disconnect" => Created = {} ]_vars

\* C6: with no caller interfering since the channel opened, the unclean close that finds
\* the attempt budget (5) used up delivers exactly one 'max reconnect attempts' error to a
\* subscribed callback and leaves no timer armed and no socket; from then on the transport
\* opens no channel and delivers no further such error until a caller acts.
OwnSocks(t) == {s \in Socks : sock[s].owner = t}

ExhaustedQuiet(t) ==
  /\ ~callerSinceOpen[t]
  /\ reconnectAttempts[t] = maxReconnectAttempts
  /\ reconnectTimers[t] = 0
  /\ OwnSocks(t) = {}

TokenRotation == authToken # 0 /\ authToken' # 0 /\ authToken' # authToken /\ wsTransport # 0

\* C7: when the auth token changes while a WebSocket transport instance exists, the provider
\* keeps that instance (no new WebSocketTransport, no disconnect() of the existing one, its
\* pending requests untouched) and only hands it the new token through updateAuthToken.
C7_TokenRotationKeepsInstance ==
  [][ TokenRotation =>
        /\ wsTransport' = wsTransport
        /\ tCount' = tCount
        /\ ws'[wsTransport] = ws[wsTransport]
        /\ reqSt' = reqSt
        /\ tAuth'[wsTransport] = authToken' ]_vars

\* C8: whenever the exposed transportType is 'websocket', the WebSocketTransport instance
\* the provider exposes reports isConnected().
C8_WebsocketMeansConnected ==
  \A p \in TRANSPORT_PREFERENCE :
    transportType(p) = "websocket" => wsTransport # 0 /\ isConnected(wsTransport)

Starts(c) == calls[c].st = "unused" /\ calls'[c].st # "unused"
Fetches(u) == netCount'[u] = netCount[u] + 1

\* C10: a call to fetchStatusCached issues a network request exactly when no call for the
\* endpoint has issued one less than one TTL before it starts (since the cache was last
\* cleared); so all calls starting within one TTL of the first issue one request in total,
\* overlapping or not, and the first call after the TTL issues the second.
C10_OneFetchPerWindow ==
  [][ \A c \in CallIds : Starts(c) =>
        LET u == calls'[c].url IN
        Fetches(u) <=> (lastNet[u] < 0 \/ now - lastNet[u] >= CACHE_TTL) ]_vars

\* call c has returned or thrown
Done(c) == calls[c].st = "done"

\* C11: no capability query rejects: a call that finds discovery failed, itself or through
\* the cached error of an earlier call, resolves, and then the status is null, every
\* capability is reported absent and the capability list is empty.
C11_QueriesNeverReject ==
  \A c \in CallIds : Done(c) =>
    /\ ~QueryRejects(calls[c].out)
    /\ calls[c].out \notin {"status", "empty"} =>
         /\ calls[c].out = "null"
         /\ \A cap \in CapNames : ~hasCapability(calls[c].url, calls[c].out, cap)
         /\ getCapabilities(calls[c].url, calls[c].out) = {}

\* C12: a 404 is stored as a non-error entry holding the synthesized manifest; the call that
\* received it and every call served from that entry while it is fresh resolve with that
\* manifest without a further fetch, and every capability query on it answers false.
C12_NotFoundIsEmptyManifest ==
  [][ \A c \in CallIds :
        /\ ( calls[c].st = "fetching" /\ Done(c)' /\ statusCache'[calls[c].url].result = "empty" )
             => calls'[c].out = "empty"
        /\ ( Starts(c) /\ Fresh(statusCache[calls'[c].url], now)
               /\ statusCache[calls'[c].url].result = "empty" )
             => calls'[c].out = "empty" /\ ~Fetches(calls'[c].url)
        /\ ( Done(c)' /\ calls'[c].out = "empty" )
             => /\ ~QueryRejects(calls'[c].out)
                /\ Manifest(calls'[c].url, calls'[c].out) =
                     [status |-> "ok", service |-> "unknown", roles |-> <<>>, api_version |-> 1,
                      capabilities |-> {}]
                /\ \A cap \in CapNames : ~hasCapability(calls'[c].url, calls'[c].out, cap)
                /\ getCapabilities(calls'[c].url, calls'[c].out) = {} ]_vars

\* two calls returned the synthesized manifest after one fetch, on an endpoint whose real
\* manifest would list capabilities
C12_Witness ==
  \E c, d \in CallIds :
    /\ c # d /\ Done(c) /\ Done(d)
    /\ calls[c].out = "empty" /\ calls[d].out = "empty"
    /\ calls[c].url = calls[d].url
    /\ netCount[calls[c].url] = 1
    /\ calls[d].at > calls[c].at
    /\ serverCaps[calls[c].url] = CapNames

\* the call took the slot reqN' and was rejected for its params, nothing else moved
InvalidRejected(api) ==
  /\ reqSt'[reqN'] = "rej_invalid"
  /\ reqApi'[reqN'] = api
  /\ reqFlow'[reqN'] = 0
  /\ sentN' = sentN
  /\ lastOut' = lastOut
  /\ pending' = pending
  /\ timerOn' = timerOn

\* C13: startOID4VCIFlow with none of the recognised combinations populated, and
\* startOID4VPFlow with neither authorizationRequestUri nor selectedCredentials,
\* reject with the 'Invalid ... flow params' error, send no message and add no
\* pending entry, on a connected and on an unconnected transport alike.
C13_InvalidParamsRejectUnsent ==
  [][ /\ \A t \in Insts, p \in VCIParams, throws \in BOOLEAN :
           ( /\ ~(p.credentialOfferUri \/ p.credentialOffer)
             /\ ~(p.holderBinding /\ p.credentialConfigurationId)
             /\ ~p.authorizationCode
             /\ ~p.preAuthorizedCode
             /\ StartOID4VCIFlow(t, p, throws) )
           => InvalidRejected("vci")
      /\ \A t \in Insts, p \in VPParams, throws \in BOOLEAN :
           ( /\ ~p.authorizationRequestUri
             /\ ~p.selectedCredentials
             /\ StartOID4VPFlow(t, p, throws) )
           => InvalidRejected("vp") ]_vars

\* an issuance call was rejected for its params while an earlier call of the same
\* transport is still pending on the open socket
C13_Witness ==
  /\ reqSt[1] = "pending" /\ reqSt[2] = "rej_invalid" /\ reqApi[2] = "vci"
  /\ reqOwner[1] = reqOwner[2] /\ isConnected(reqOwner[2])
  /\ CallResult(2) = [state |-> "rejected", message |-> "Invalid flow params"]
  /\ sentN = 1

\* the call made in this step took slot reqN' and handed exactly msg to send()
Handed(api, flow, type, action) ==
  /\ reqN' = reqN + 1
  /\ reqApi'[reqN'] = api
  /\ lastOut'.flow = flow /\ lastOut'.type = type /\ lastOut'.action = action

\* the message went on the wire under a flowId no earlier call was given
SentFresh ==
  /\ sentN' = sentN + 1
  /\ lastOut'.flowId # 0
  /\ \A r \in 1..reqN : reqFlow[r] # lastOut'.flowId
  /\ reqFlow'[reqN'] = lastOut'.flowId
  /\ \A r \in 1..reqN : reqFlow'[r] = reqFlow[r]

\* C14: on an open connection each startOID4VCIFlow call with a recognised combination
\* sends exactly one message under a fresh flowId, chosen by the first matching rule:
\* offer URI or offer JSON -> flow.start; holderBinding with credentialConfigurationId
\* -> flow.continue/consent; authorizationCode -> flow.continue/token_exchange;
\* preAuthorizedCode -> flow.continue/pre_authorized.
C14_FirstMatchingRule ==
  [][ \A t \in Insts, p \in VCIParams :
        LET offer == p.credentialOfferUri \/ p.credentialOffer
            consent == p.holderBinding /\ p.credentialConfigurationId
        IN
        ( /\ isConnected(t)
          /\ offer \/ consent \/ p.authorizationCode \/ p.preAuthorizedCode
          /\ StartOID4VCIFlow(t, p, FALSE) )
        => /\ SentFresh
           /\ offer => Handed("vci", "oid4vci", "flow.start", "none")
           /\ ~offer /\ consent => Handed("vci", "oid4vci", "flow.continue", "consent")
           /\ ~offer /\ ~consent /\ p.authorizationCode
                => Handed("vci", "oid4vci", "flow.continue", "token_exchange")
           /\ ~offer /\ ~consent /\ ~p.authorizationCode /\ p.preAuthorizedCode
                => Handed("vci", "oid4vci", "flow.continue", "pre_authorized") ]_vars

\* two issuance calls on the open socket: a flow.start under flowId 1, then a consent
\* continuation under flowId 2, both pending
C14_Witness ==
  /\ reqApi[1] = "vci" /\ reqApi[2] = "vci"
  /\ reqSt[1] = "pending" /\ reqSt[2] = "pending"
  /\ reqFlow[1] # reqFlow[2]
  /\ sentN = 2
  /\ lastOut = Outbound("oid4vci", "consent", reqFlow[2])

\* C15: startOID4VPFlow hands send() a flow.continue with action 'submit' whenever
\* selectedCredentials is present, with or without authorizationRequestUri, and a
\* flow.start only when authorizationRequestUri is present alone; each call hands over
\* exactly one message, which goes on the wire once when the socket is open.
C15_SubmitWinsOverStart ==
  [][ \A t \in Insts, p \in VPParams, throws \in BOOLEAN :
        StartOID4VPFlow(t, p, throws) =>
          /\ p.selectedCredentials => Handed("vp", "oid4vp", "flow.continue", "submit")
          /\ p.authorizationRequestUri /\ ~p.selectedCredentials
               => Handed("vp", "oid4vp", "flow.start", "none")
          /\ p.selectedCredentials \/ p.authorizationRequestUri
               => /\ lastOut'.type = "flow.start" => ~p.selectedCredentials
                  /\ sentN' = IF isConnected(t) /\ ~throws THEN sentN + 1 ELSE sentN
                  /\ isConnected(t) /\ ~throws => SentFresh ]_vars

\* a presentation flow started and then a submit sent on the open socket
C15_Witness ==
  /\ reqApi[1] = "vp" /\ reqApi[2] = "vp"
  /\ reqSt[1] = "fulfilled" /\ reqSt[2] = "pending"
  /\ sentN = 2
  /\ lastOut = Outbound("oid4vp", "submit", reqFlow[2])

\* the call waiting under flowId on the transport that owns socket s (0 when none)
Waiting(s, flowId) == IF sock[s].st = "OPEN" THEN pending[sock[s].owner][flowId] ELSE 0

\* the result of call r after the step
ResultAfter(r) == Outcome(reqApi'[r], reqSt'[r], reqMsg'[r])

\* C16: an inbound 'error' message whose flowId matches a pending startOID4VCIFlow or
\* startOID4VPFlow call makes that call reject with the text of error.message ('Unknown
\* error' when absent), and a rejected call is never fulfilled afterwards; any other
\* non-progress message with that flowId fulfils the call with success = true.
C16_ErrorMessageRejectsFlow ==
  [][ /\ \A s \in Socks, f \in FlowIds, err \in ErrorPayloads :
           ( /\ Waiting(s, f) # 0
             /\ reqApi[Waiting(s, f)] \in {"vci", "vp"}
             /\ ServerMessage(s, f, "error", err) )
           => ResultAfter(Waiting(s, f)) =
                [state |-> "rejected",
                 message |-> IF err.message = "absent" THEN "Unknown error" ELSE err.message]
      /\ \A s \in Socks, f \in FlowIds, type \in MsgTypes \ {"error", "progress"} :
           ( /\ Waiting(s, f) # 0
             /\ reqApi[Waiting(s, f)] \in {"vci", "vp"}
             /\ ServerMessage(s, f, type, NoError) )
           => /\ ResultAfter(Waiting(s, f)).state = "fulfilled"
              /\ ResultAfter(Waiting(s, f)).value.success
      /\ \A r \in Reqs :
           CallResult(r).state = "rejected" => ResultAfter(r) = CallResult(r) ]_vars

\* an issuance call rejected by an error message without text, and a presentation call
\* fulfilled by a result message
C16_Witness ==
  /\ reqApi[1] = "vci" /\ reqSt[1] = "rej_error"
  /\ reqMsg[1] = [type |-> "error", error |-> [code |-> "c", message |-> "absent"]]
  /\ CallResult(1) = [state |-> "rejected", message |-> "Unknown error"]
  /\ reqApi[2] = "vp"
  /\ CallResult(2).state = "fulfilled" /\ CallResult(2).value.success

\* C17: when the server answers a request() with an error message carrying code c and
\* message m, request() returns {success:false, error:{code:c, message:m}}.
C17_RequestSurfacesServerError ==
  [][ \A s \in Socks, f \in FlowIds :
        ( /\ Waiting(s, f) # 0
          /\ reqApi[Waiting(s, f)] = "request"
          /\ ServerMessage(s, f, "error", [code |-> "c", message |-> "m"]) )
        => ResultAfter(Waiting(s, f)) =
             [state |-> "fulfilled",
              value |-> [success |-> FALSE, code |-> "c", message |-> "m"]] ]_vars

\* a FlowResponse carries an error exactly when it reports failure
WellFormed(value) == value.success <=> value.error = "absent"

\* C18: every FlowResponse returned by HttpProxyTransport.request and by
\* WebSocketTransport.request has an error when success is false and none when
\* success is true, for every flow type, proxy status and server message.
C18_ErrorIffFailure ==
  /\ \A c \in HttpCallIds : httpCalls[c].st = "done" => WellFormed(httpCalls[c].resp)
  /\ \A r \in Reqs :
       reqApi[r] = "request" /\ CallResult(r).state = "fulfilled" =>
         (CallResult(r).value.success <=> CallResult(r).value.code = "absent")

\* operation k comes to its end in this step
Finishes(k) == ops[k].st # "done" /\ ops'[k].st = "done"

\* the operation ended as a normalised failure: a resolved {success:false, error:{code,
\* message}}, the error recorded in the hook, onError called when supplied, and the
\* step of useOID4VPFlow at 'error'
Normalised(k) ==
  LET res == ops'[k].result
      h == HookOf(ops'[k].kind)
  IN
  /\ res.state = "fulfilled"
  /\ ~res.value.success
  /\ res.value.code \in {"FLOW_ERROR", "AUTH_RESPONSE_ERROR", "PREAUTH_ERROR", "RESPONSE_ERROR"}
  /\ res.value.message \notin {"absent", "none"}
  /\ hook'[h].error = res.value.message
  /\ hook'[h].heard = hook[h].heard + (IF hookOptions.onError THEN 1 ELSE 0)
  /\ h = "vp" => hook'[h].step = "error"
  /\ ~hook'[h].isLoading

Quiet(h) ==
  \A k \in Ops : ~(ops[k].st = "awaiting" /\ ops[k].path = "websocket" /\ HookOf(ops[k].kind) = h)

\* C20: when a facade operation run over the websocket transport finishes, by success,
\* thrown error, timeout or disconnect, every progress and error callback it subscribed
\* has been unsubscribed: the transport's subscriber sets hold nothing it added, and
\* nothing of a hook that has no operation in flight.
C20_UnsubscribedOnFinish ==
  [][ /\ \A k \in Ops :
           Finishes(k) /\ ops[k].path = "websocket" =>
             /\ HookOf(ops[k].kind) \notin progressSubs'
             /\ SubscribesError(ops[k].kind) => HookOf(ops[k].kind) \notin errorSubs'
      /\ \A h \in Hooks : Quiet(h)' => h \notin progressSubs' /\ h \notin errorSubs' ]_vars

\* two operations over the websocket transport, one ended by the server closing the
\* connection and one by success, with both callbacks supplied and none left subscribed
C20_Witness ==
  /\ hookOptions = [onProgress |-> TRUE, onError |-> TRUE]
  /\ ops[1].st = "done" /\ ops[1].path = "websocket" /\ ops[1].kind = "handleCredentialOffer"
  /\ reqSt[ops[1].req] = "rej_disconnected"
  /\ ops[2].st = "done" /\ ops[2].path = "websocket" /\ ops[2].kind = "handleAuthorizationRequest"
  /\ reqSt[ops[2].req] = "fulfilled"
  /\ progressSubs = {} /\ errorSubs = {}

\* the refresh the module state points at has not completed yet
InFlight == refreshPromise # 0 /\ posts[refreshPromise] = "inflight"

Ended(w) == wCalls[w].st \in {"returned", "thrown"}

\* C22: one withTokenRefresh call invokes requestFn at most twice and refreshAccessToken at
\* most once; it refreshes only after a first attempt that failed with 401, makes the second
\* attempt only after that refresh succeeded, and otherwise (another error, a failed refresh,
\* any error of the second attempt) throws the error of its last attempt and does nothing more.
C22_AtMostOneRetry ==
  [][\A w \in WrapIds :
       /\ wCalls'[w].attempts <= 2 /\ wCalls'[w].refreshes <= 1
       /\ wCalls'[w].refreshes # wCalls[w].refreshes
            => /\ wCalls[w].st = "first" /\ wCalls[w].attempts = 1
               /\ wCalls'[w].err = "401"
               /\ \E c \in RefreshIds : rCalls[c].st = "unused" /\ rCalls'[c].st # "unused"
                                          /\ wCalls'[w].rc = c
       /\ (\E c \in RefreshIds : rCalls[c].st = "unused" /\ rCalls'[c].st # "unused")
             /\ wCalls' # wCalls /\ wCalls'[w] # wCalls[w]
            => wCalls'[w].refreshes = wCalls[w].refreshes + 1
       /\ wCalls'[w].attempts # wCalls[w].attempts /\ wCalls[w].attempts = 1
            => /\ wCalls[w].st = "refreshing" /\ wCalls[w].refreshes = 1
               /\ rCalls[wCalls[w].rc].st = "returned" /\ rCalls[wCalls[w].rc].result.success
               /\ wCalls'[w].attempts = 2 /\ wCalls'[w].st = "second"
       /\ \A outcome \in RequestOutcomes \ {"ok"}, hasToken \in BOOLEAN :
            RequestSettles(w, outcome, hasToken)
              /\ ~(wCalls[w].st = "first" /\ outcome = "401")
            => wCalls'[w].st = "thrown" /\ wCalls'[w].out = outcome /\ rCalls' = rCalls
       /\ RefreshAwaited(w) /\ ~rCalls[wCalls[w].rc].result.success
            => wCalls'[w].st = "thrown" /\ wCalls'[w].out = "401"
       /\ Ended(w) => wCalls'[w] = wCalls[w]
    ]_vars

\* a call whose first attempt failed with 401, whose refresh succeeded and whose second
\* attempt failed with 401 again: it has thrown that error after two attempts and one refresh
C22_Witness ==
  \E w \in WrapIds :
    /\ wCalls[w].st = "thrown" /\ wCalls[w].out = "401"
    /\ wCalls[w].attempts = 2 /\ wCalls[w].refreshes = 1
    /\ rCalls[wCalls[w].rc].result.success

EmitsProgress == progressLog' # progressLog
EmitsError == \E s \in Socks :
                \/ sock[s].st # "FAILED" /\ sock'[s].st = "FAILED" /\ autoWait[s] > 0
                \/ /\ sock[s].st # "FREE" /\ sock'[s].st = "FREE"
                   /\ reconnectTimers' = reconnectTimers
                   /\ reconnectAttempts[sock[s].owner] = maxReconnectAttempts

\* C24: every progress event and every error event is delivered exactly once to each
\* callback subscribed when it is emitted and to no other callback, whichever of the
\* subscribed callbacks throw; a callback that was unsubscribed hears nothing until it
\* subscribes again; a progress event leaves the connection and the pending table as they
\* were, an error event changes them only as the close or error that raised it does, and no
\* count changes in any other step.
C24_EmitReachesEverySubscriber ==
  [][/\ EmitsProgress
          => /\ \A cb \in Hooks :
                   progressHeard'[cb] = progressHeard[cb] + (IF cb \in progressSubs THEN 1 ELSE 0)
             /\ UNCHANGED <<connVars, reVars, pending, reqSt, timerOn, progressSubs, errorSubs>>
     /\ EmitsError
          => /\ \A cb \in Hooks :
                   errorHeard'[cb] = errorHeard[cb] + (IF cb \in errorSubs THEN 1 ELSE 0)
             /\ UNCHANGED <<progressSubs, errorSubs>>
     /\ ~EmitsProgress => progressHeard' = progressHeard
     /\ ~EmitsError => errorHeard' = errorHeard
    ]_vars

\* both callbacks heard a progress event while the request was pending, then the second
\* unsubscribed from errors and the first alone heard two error events
C24_Witness ==
  /\ progressHeard = [cb \in Hooks |-> 1]
  /\ progressLog = {1} /\ reqFlow[1] = 1
  /\ errorHeard = [vci |-> 2, vp |-> 0]
  /\ errorSubs = {"vci"}

\* C25: an inbound progress message, whether its flowId is that of a pending request or
\* of a settled one, settles no request, removes no pending entry and clears no timeout; it only
\* calls the subscribed progress callbacks.
C25_ProgressSettlesNothing ==
  [][\A s \in Socks, f \in FlowIds :
       Message(s, f, "progress")
         => /\ UNCHANGED <<pending, reqSt, timerOn, settles, reqN, reqFlow>>
            /\ UNCHANGED <<connVars, reVars>>
            /\ progressHeard' = Heard(progressHeard, progressSubs, 1)
    ]_vars

\* a subscriber has heard a progress event that carried the flowId of a pending request,
\* and the request is still pending with its timeout armed
C25_Witness ==
  \E r \in Reqs :
    /\ reqSt[r] = "pending" /\ timerOn[r] /\ pending[1][reqFlow[r]] = r
    /\ reqFlow[r] \in progressLog
    /\ \E cb \in Hooks : progressHeard[cb] > 0

\* C26: a progress event is never delivered to a subscriber under the flowId of a request
\* that has already been settled (fulfilled, rejected or timed out).
C26_NoProgressAfterSettled ==
  [][\A s \in Socks, f \in FlowIds :
       Message(s, f, "progress") /\ progressSubs # {} => Stage(f) # "settled"
    ]_vars

\* the operations of hook h that have started and not yet returned
InFlightOps(h) == {k \in Ops : ops[k].st = "awaiting" /\ HookOf(ops[k].kind) = h}

\* C27: the isLoading flag of each hook is true exactly while at least one of its
\* operations is in flight, also when two operations of the hook overlap.
C27_LoadingIffInFlight ==
  \A h \in Hooks : hook[h].isLoading <=> InFlightOps(h) # {}

\* handleDisconnect armed a reconnect timer of transport t in this step
Arms(t) == reconnectTimers'[t] = reconnectTimers[t] + 1

\* C28: the reconnect timer armed by the k-th unclean close since a channel last opened
\* (k = 1..5) has delay 1000 * 2^(k-1) ms; reconnectAttempts is always within
\* 0..maxReconnectAttempts, grows only by one and only when a timer is armed, and goes
\* back to 0 exactly when a channel of the transport opens.
C28_ExponentialBackoff ==
  [][\A t \in 1..tCount :
       /\ reconnectAttempts'[t] \in 0..maxReconnectAttempts
       /\ Arms(t) => /\ reconnectAttempts'[t] = reconnectAttempts[t] + 1
                     /\ timerDelay'[t] = 1000 * 2 ^ (reconnectAttempts'[t] - 1)
                     /\ timerDelay'[t] \in {1000, 2000, 4000, 8000, 16000}
       /\ reconnectAttempts'[t] > reconnectAttempts[t] => Arms(t)
       /\ reconnectAttempts'[t] < reconnectAttempts[t]
            => reconnectAttempts'[t] = 0 /\ \E s \in Socks : Opens(s) /\ sock[s].owner = t
       /\ (\E s \in Socks : Opens(s) /\ sock[s].owner = t) => reconnectAttempts'[t] = 0
    ]_vars

\* the fifth timer in a row is armed with 16000 ms while a channel that a caller
\* connected has opened and put the counter back to 0
C28_Witness ==
  /\ timerDelay[1] = 16000 /\ reconnectTimers[1] = 1
  /\ reconnectAttempts[1] = 0
  /\ isConnected(1)

\* socket s is not the channel its transport currently holds, and the transport holds one
Stale(s) == sock[s].owner # 0 /\ ws[sock[s].owner] # 0 /\ ws[sock[s].owner] # s

\* C29: the close event of a socket that is no longer the transport's current channel
\* leaves the reference to the current channel, the requests pending on it and the
\* reconnect timers as they were.
C29_StaleCloseIgnored ==
  [][\A s \in Socks :
       Stale(s) /\ Closes(s)
         => /\ ws'[sock[s].owner] = ws[sock[s].owner]
            /\ pending' = pending /\ reqSt' = reqSt
            /\ reconnectTimers' = reconnectTimers
    ]_vars

\* request r is waiting for its reply; request r has an entry in a pending table
Pending(r) == reqSt[r] = "pending"
Tabled(r) == \E t \in Insts, f \in FlowIds : pending[t][f] = r

\* C30: every request that send() accepted is eventually settled and its entry removed
\* from the pending table, by a reply, by its timeout or by a disconnect, provided every
\* timeout that is due eventually fires.
C30_EveryRequestSettles ==
  \A r \in Reqs : (Pending(r) \/ Tabled(r)) ~> (~Pending(r) /\ ~Tabled(r) /\ settles[r] = 1)

\* one request was settled by its timeout, the other by the close of the connection
C30_Witness ==
  /\ reqSt[1] = "rej_timeout" /\ reqSt[2] = "rej_disconnected"
  /\ \A r \in Reqs : ~Tabled(r) /\ ~timerOn[r]

\* socket s, the channel of the connect() in progress on transport t, fails before opening
FailsConnecting(t, s) ==
  /\ sock[s].owner = t /\ connectionPromise[t] = s
  /\ sock[s].st = "CONNECTING" /\ sock'[s].st = "FAILED"

\* C31: when the channel of the connect() in progress signals an error before opening,
\* every caller awaiting that connect() is rejected with 'WebSocket connection failed', the
\* transport holds no connection promise and is not connected; and a connect() called in
\* that situation creates exactly one new socket and awaits it.
C31_ConnectErrorRejects ==
  [][/\ \A t \in Insts, s \in Socks :
          FailsConnecting(t, s)
            => /\ \A c \in Callers :
                    connSt[c] = "wait" /\ connP[c] = s => connSt'[c] = "fail"
               /\ connectionPromise'[t] = 0
               /\ ws'[t] = 0 \/ sock'[ws'[t]].st # "OPEN"
     /\ \A t \in Insts, c \in Callers :
          Connect(t, c) /\ connectionPromise[t] = 0 /\ ws[t] # 0 /\ sock[ws[t]].st = "FAILED"
            => /\ Cardinality(Created) = 1
               /\ connectionPromise'[t] \in Created /\ ws'[t] \in Created
               /\ connSt'[c] = "wait" /\ connP'[c] \in Created
    ]_vars

\* two callers shared one attempt and both were rejected by its error; the first has
\* called connect() again and awaits a second socket while the failed one is still held
\* by the browser
C31_Witness ==
  /\ connSt[1] = "wait" /\ connSt[2] = "fail"
  /\ \E s \in Socks : sock[s].st = "FAILED"
  /\ ws[1] # 0 /\ sock[ws[1]].st = "CONNECTING" /\ connP[1] = ws[1]
  /\ reconnectAttempts[1] = 0

\* a call made in this step entered send() on transport t while t was not connected
SendsUnconnected(t) ==
  /\ reqN' = reqN + 1 /\ reqOwner'[reqN'] = t
  /\ reqSt'[reqN'] # "rej_invalid"
  /\ ~isConnected(t)

NotConnectedText == "WebSocket not connected"

\* C32: a flow or generic request issued while the transport is not connected puts no
\* message on the wire, creates no pending entry and no timer, draws no flowId and
\* leaves the connection and reconnect fields as they were; the promise of send() is
\* rejected with 'WebSocket not connected', which a flow method passes on as a rejection
\* and request() returns as {success: false, error: {code: 'WEBSOCKET_ERROR', message}}.
C32_NotConnectedFailsCleanly ==
  [][\A t \in Insts :
       SendsUnconnected(t)
         => /\ sentN' = sentN
            /\ UNCHANGED <<pending, timerOn, uuidNext, connVars, reVars>>
            /\ \A r \in 1..reqN : reqSt'[r] = reqSt[r] /\ settles'[r] = settles[r]
            /\ reqSt'[reqN'] = "rej_notconnected" /\ settles'[reqN'] = 1
            /\ ResultAfter(reqN') =
                 IF reqApi'[reqN'] = "request"
                 THEN [state |-> "fulfilled",
                       value |-> [success |-> FALSE, code |-> "WEBSOCKET_ERROR",
                                  message |-> NotConnectedText]]
                 ELSE [state |-> "rejected", message |-> NotConnectedText]
    ]_vars

\* a generic request and a flow start were both issued on a transport that had been
\* connected and lost its channel: one returned the structured failure, the other
\* rejected, and nothing was sent
C32_Witness ==
  /\ reqN = 2 /\ sentN = 0
  /\ reqApi[1] = "request" /\ CallResult(1).state = "fulfilled"
  /\ ~CallResult(1).value.success /\ CallResult(1).value.message = NotConnectedText
  /\ reqApi[2] = "vci" /\ CallResult(2) = [state |-> "rejected", message |-> NotConnectedText]
  /\ reconnectAttempts[1] = 1
  /\ \A f \in FlowIds : pending[1][f] = 0

\* one transport with its requests, their timeouts and every message a server can send,
\* whether or not the transport is waiting on its flowId
NextStray ==
  \/ lastApi = "none" /\ Connect(1, 1)
  \/ \E s \in Socks : SockOpen(s)
  \/ Send(1, FALSE) /\ UNCHANGED <<flowVars, facadeVars>>
  \/ \E r \in Reqs : RequestTimeout(r)
  \/ \E s \in Socks, f \in FlowIds, type \in MsgTypes :
        handleMessage(s, f, type) /\ UNCHANGED <<flowVars, facadeVars>>
  \/ \E cb \in Hooks : onProgress(cb)
  \/ \E cb \in Hooks : onError(cb)

SpecStray == Init /\ [][NextStray]_vars

\* handleMessage runs in this step for a non-progress message on socket s whose flowId
\* has no pending entry
StrayMessage(s, f, type) ==
  /\ type # "progress"
  /\ sock[s].st = "OPEN"
  /\ pending[sock[s].owner][f] = 0
  /\ handleMessage(s, f, type)

\* C33: an inbound non-progress message whose flowId has no pending entry settles no
\* request, leaves the pending table, the timers, the connection and reconnect fields
\* unchanged and calls no progress or error subscriber; the handler only logs a warning.
C33_StrayMessageIgnored ==
  [][\A s \in Socks, f \in FlowIds, type \in MsgTypes :
       StrayMessage(s, f, type)
         => /\ UNCHANGED <<reqVars, connVars, reVars>>
            /\ UNCHANGED <<progressHeard, errorHeard, progressSubs, errorSubs>>
            /\ warned' = warned + 1
    ]_vars

\* with subscribers present and another request still pending, the server has sent a
\* result for a flowId that had timed out and one for a flowId never issued
C33_Witness ==
  /\ warned = 2
  /\ reqN = 2 /\ reqSt[1] = "rej_timeout" /\ reqSt[2] = "pending"
  /\ pending[1][reqFlow[2]] = 2
  /\ progressSubs # {} /\ errorSubs # {}

\* transport.updateAuthToken(token)
updateAuthToken(t, token) ==
  /\ t \in 1..tCount
  /\ tAuth' = [tAuth EXCEPT ![t] = token]
  /\ UNCHANGED <<tCount, connVars, waitVars, reVars, reqVars, evVars, histVars>>
  /\ UNCHANGED <<pIsConnected, lastError, authToken, wsTransport, capabilitiesLoaded,
                 wsCapabilityAvailable, capFetch, effInst, cfg>>
  /\ UNCHANGED <<cacheVars, flowVars, facadeVars, obsVars, refreshVars, txVars>>

\* one transport whose owner connects, disconnects, sends and renews the token at any
\* time, with socket errors, closes and automatic reconnects
NextToken ==
  \/ Connect(1, 1)
  \/ Disconnect(1)
  \/ \E s \in Socks : SockOpen(s)
  \/ \E s \in Socks : SockError(s)
  \/ \E s \in Socks, code \in CloseCodes : SockClose(s, code)
  \/ ReconnectTimer(1)
  \/ Send(1, FALSE) /\ UNCHANGED <<flowVars, facadeVars>>
  \/ \E token \in Tokens : updateAuthToken(1, token)

SpecToken == Init /\ [][NextToken]_vars

\* C34: updateAuthToken changes only the stored token: the sockets, this.ws, the
\* connection promise, the pending table, the request timers, the reconnect counter and
\* timers are unchanged and no request is settled; and every socket constructed in any
\* step, by connect() or by the reconnect timer, carries in its URL the token stored at
\* that moment, that is the one set most recently.
C34_TokenOnlyStored ==
  [][/\ \A t \in Insts, token \in Tokens :
          updateAuthToken(t, token)
            => /\ tAuth'[t] = token
               /\ UNCHANGED <<connVars, reVars, reqVars, waitVars>>
     /\ \A s \in Created : sock'[s].token = tAuth[sock'[s].owner]
     /\ \A s \in Socks \ Created : sock'[s].st # "FREE" => sock'[s].token = sock[s].token
    ]_vars

\* the token was renewed on a transport whose channel, opened with the old one, carried
\* a request; that channel closed uncleanly and the socket being opened after the
\* reconnect timer fired carries the new token in its URL
C34_Witness ==
  /\ tAuth[1] = 2
  /\ reqN = 1 /\ reqSt[1] = "rej_disconnected"
  /\ reconnectAttempts[1] = 1 /\ reconnectTimers[1] = 0
  /\ ws[1] # 0 /\ sock[ws[1]].st = "CONNECTING" /\ sock[ws[1]].token = 2

\* the provider from mount on, with the events that change what the selection reads:
\* capability discovery, token changes, and the opening, failure and clean close of the
\* provider's sockets
NextSelect ==
  \/ \E outcome \in {"websocket", "other", "throws"} : CapabilitiesResolve(outcome)
  \/ \E tok \in {0} \cup Tokens : SetAuthToken(tok)
  \/ Reconnect
  \/ \E s \in Socks : SockOpen(s)
  \/ \E s \in Socks : SockError(s)
  \/ \E s \in Socks : SockClose(s, CLEAN_CLOSE)

SpecSelect == InitProv /\ [][NextSelect]_vars

\* transport type x is available and usable under preference list p
Usable(p, x) ==
  /\ x \in availableTransports(p)
  /\ CASE x = "websocket" -> wsTransport # 0 /\ pIsConnected
       [] x = "http" -> HTTP_TRANSPORT_ALLOWED(p)
       [] OTHER -> FALSE

\* positions of the first usable entry of p (empty or a single position)
FirstUsable(p) ==
  {i \in DOMAIN p : Usable(p, p[i]) /\ \A j \in 1..(i - 1) : ~Usable(p, p[j])}

C36_ClearForcesRefetch ==
  [][ \A c \in CallIds : Starts(c) =>
        LET u == calls'[c].url IN
        lastNet[u] < 0 => Fetches(u) /\ calls'[c].st = "fetching" ]_vars

\* C37: while an operation over the websocket transport is awaiting its result and the
\* hook was given an onProgress callback, that callback is in the transport's
\* progressCallbacks, whatever other operations of the hook have finished meanwhile.
C37_SubscribedWhileInFlight ==
  \A k \in Ops :
    ops[k].st = "awaiting" /\ ops[k].path = "websocket" /\ hookOptions.onProgress
      => HookOf(ops[k].kind) \in progressSubs

\* the step documented for an operation of useOID4VPFlow that returned success
SuccessStep(kind) ==
  IF kind = "handleAuthorizationRequest" THEN "awaiting_credential_selection" ELSE "completed"

\* C38: when handleAuthorizationRequest or sendAuthorizationResponse of useOID4VPFlow
\* returns a result with success true, over the websocket or the http transport, the
\* hook's currentStep is 'awaiting_credential_selection', respectively 'completed'.
C38_StepAfterSuccess ==
  [][ \A k \in Ops :
        ( /\ Finishes(k) /\ HookOf(ops[k].kind) = "vp"
          /\ ops'[k].result.state = "fulfilled"
          /\ ops'[k].result.value.success )
          => hook'["vp"].step = SuccessStep(ops[k].kind) ]_vars

\* the provider's three callbacks, called in any order
NextTxCode ==
  \/ requestTxCode
  \/ \E code \in TxCodes : handleSubmit(code)
  \/ handleCancel

SpecTxCode == Init /\ [][NextTxCode]_vars

\* the promise of call i has been returned and is not settled
Unsettled(i) == txPromise[i].st = "pending"

\* C39: handleSubmit(code) resolves with code, and handleCancel rejects, every promise
\* of requestTxCode that is not settled yet, also those of calls made before the latest
\* one; a settled promise keeps its outcome; and with no promise unsettled the two
\* handlers only close the popup.
C39_EveryTxPromiseSettled ==
  [][ /\ \A code \in TxCodes :
           handleSubmit(code) =>
             \A i \in TxIds : Unsettled(i) => txPromise'[i] = [st |-> "resolved", value |-> code]
      /\ handleCancel =>
           \A i \in TxIds : Unsettled(i) => txPromise'[i].st = "rejected"
      /\ \A i \in TxIds : txPromise[i].st \in {"resolved", "rejected"} => txPromise'[i] = txPromise[i]
      /\ ( (\E code \in TxCodes : handleSubmit(code)) \/ handleCancel )
           /\ (\A i \in TxIds : ~Unsettled(i))
           => txPromise' = txPromise /\ pendingRef' = pendingRef /\ ~txState'.isOpen
    ]_vars
====
